---- MODULE Spec2Model ----
(***************************************************************************)
(* The synchronization hub of sync-player: the session registry and its    *)
(* authentication paths, the playback-state arbiter, the queue manager,    *)
(* the chat history buffer and the persistence of the room state.          *)
(*                                                                         *)
(* Conventions.  A JavaScript `undefined` string-valued field is the       *)
(* string Undefined; an undefined picture is the empty tuple.  Playback    *)
(* positions and the clock are both counted in clock ticks, so that        *)
(* (Date.now() - timestamp) / 1000 seconds is the difference of two clock  *)
(* readings.  Identifiers are tuples: <<"temp", socketId>> for the         *)
(* connection-scoped one, <<"sha256", s>> for hashGoogleId(s).             *)
(***************************************************************************)
EXTENDS Integers, Sequences, FiniteSets, TLC

\* ---------------------------------------------------------------- bounds
MaxConn == 2
MaxPending == 2
MaxNow == 2
MaxTime == 1
MaxItems == 3
MaxAppends == 52
MaxNotices == 1
MaxChats == 2

\* ------------------------------------------------------- program constants
MAX_HISTORY == 50

Undefined == "undefined"
NoPicture == <<>>

Conn == 1..MaxConn

\* What googleClient.verifyIdToken resolves to for the tokens a client may
\* present: the payload of a Google account, a ticket without payload, or a
\* rejection.
Accounts ==
    { [sub |-> "g1", name |-> "Ann", email |-> "ann@example.org", picture |-> TRUE],
      [sub |-> "g2", name |-> "Bob", email |-> "bob@example.org", picture |-> FALSE] }
InvalidToken == [sub |-> "invalid", name |-> "", email |-> "", picture |-> FALSE]
EmptyTicket == [sub |-> "nopayload", name |-> "", email |-> "", picture |-> FALSE]

\* process.env.ADMIN_EMAIL: unset, or the address of the operator.
AdminEmails == {"", "ann@example.org"}
DevEmails == {"ann@example.org", "bob@example.org"}

Times == 0..MaxTime

VARIABLES
    clients,      \* WebSocketService.clients, in Map insertion order
    sock,         \* socket id -> "new" | "open" | "closed"
    serverState,  \* state.service serverState
    stateFile,    \* server-state.json: <<>> when absent, else <<document>>
    written,      \* the serverState handed to the last persistState
    chatHistory,  \* WebSocketService.chatHistory
    appended,     \* every entry ever pushed on chatHistory, oldest first
    now,          \* Date.now()
    adminEmail,   \* process.env.ADMIN_EMAIL
    pending,      \* auth-google handlers suspended at an await
    kickTimers,   \* sockets with a scheduled setTimeout(disconnect)
    running,      \* the authentication handler between dedup and install
    nextItem,     \* number of queue item ids drawn so far
    orphans,      \* Client objects out of the registry a handler still holds
    sent,         \* messages delivered by the last handler step, in order
    last          \* the event handled by the last step

vars == <<clients, sock, serverState, stateFile, written, chatHistory, appended,
          now, adminEmail, pending, kickTimers, running, nextItem, orphans, sent, last>>

\* ------------------------------------------------------------ sequences
RECURSIVE SelectIdx(_, _, _)
\* indices i >= from of s with s[i].id = sid, first one or 0
SelectIdx(s, sid, from) ==
    IF from > Len(s) THEN 0
    ELSE IF s[from].id = sid THEN from
    ELSE SelectIdx(s, sid, from + 1)

RemoveAt(s, i) == [j \in 1..(Len(s) - 1) |-> IF j < i THEN s[j] ELSE s[j + 1]]

InsertAt(s, i, x) ==
    [j \in 1..(Len(s) + 1) |-> IF j < i THEN s[j] ELSE IF j = i THEN x ELSE s[j - 1]]

RECURSIVE SetToSeq(_)
SetToSeq(S) ==
    IF S = {} THEN <<>>
    ELSE LET m == CHOOSE x \in S : \A y \in S : x <= y
         IN <<m>> \o SetToSeq(S \ {m})

\* ------------------------------------------------------------- registry
\* crypto.utils hashGoogleId: a deterministic digest, taken collision free.
hashGoogleId(googleId) == <<"sha256", googleId>>

TempUserId(sid) == <<"temp", sid>>

\* clients.get(socket.id): index of the record, 0 when there is none.
ClientIdx(cl, sid) == SelectIdx(cl, sid, 1)
HasClient(cl, sid) == ClientIdx(cl, sid) # 0
ClientOf(cl, sid) == cl[ClientIdx(cl, sid)]

\* clients.delete(socket.id)
DeleteClient(cl, sid) ==
    IF HasClient(cl, sid) THEN RemoveAt(cl, ClientIdx(cl, sid)) ELSE cl

NewClient(sid) ==
    [id |-> sid, nick |-> "Authenticating...", isAdmin |-> FALSE, isMuted |-> FALSE,
     userId |-> TempUserId(sid), googleId |-> Undefined, picture |-> NoPicture,
     isAuthenticated |-> FALSE, isReady |-> FALSE]

\* ------------------------------------------------------------ emissions
\* socket.emit: delivered only while the socket is open.
EmitTo(sk, c, m) == IF sk[c] = "open" THEN <<[to |-> c, msg |-> m]>> ELSE <<>>

RECURSIVE EmitSeq(_, _, _)
EmitSeq(sk, cs, m) ==
    IF cs = <<>> THEN <<>>
    ELSE EmitTo(sk, Head(cs), m) \o EmitSeq(sk, Tail(cs), m)

\* io.emit: every open socket.
EmitAll(sk, m) == EmitSeq(sk, SetToSeq(Conn), m)

\* socket.broadcast.emit: every open socket but the sender's.
EmitOthers(sk, c, m) == EmitSeq(sk, SetToSeq(Conn \ {c}), m)

UserListOf(cl) ==
    [type |-> "user-list",
     users |-> [i \in 1..Len(cl) |->
                 [id |-> cl[i].userId, nick |-> cl[i].nick, isAdmin |-> cl[i].isAdmin,
                  isMuted |-> cl[i].isMuted, isReady |-> cl[i].isReady,
                  picture |-> cl[i].picture]]]

broadcastUserList(sk, cl) == EmitAll(sk, UserListOf(cl))
sendUserListTo(sk, c, cl) == EmitTo(sk, c, UserListOf(cl))

SystemStateMsg(st) ==
    [type |-> "system-state", userControlsAllowed |-> st.areUserControlsAllowed,
     proxyEnabled |-> st.isProxyEnabled]

\* The new flags are not announced.
broadcastSystemStateNone(sk, st) == <<>>

broadcastSystemState(sk, st) == EmitAll(sk, SystemStateMsg(st))

QueueStateMsg(st) ==
    [type |-> "queue-state", queue |-> st.videoQueue, currentIndex |-> st.currentQueueIndex]

broadcastQueueState(sk, st) == EmitAll(sk, QueueStateMsg(st))
sendQueueStateTo(sk, c, st) == EmitTo(sk, c, QueueStateMsg(st))

\* ------------------------------------------------------------- playback
\* A JavaScript truthiness test on a url: "" and undefined are falsy.
Truthy(u) == u \notin {"", Undefined}

VideoState(u, t, p, ts) == [url |-> u, time |-> t, paused |-> p, timestamp |-> ts]

\* The elapsed time is added whether paused or not.
EstimatedTimeAlways(v, t) == v.time + (t - v.timestamp)

\* let estimatedTime = time; if (!paused) estimatedTime += (Date.now() - timestamp) / 1000
EstimatedTime(v, t) == IF ~v.paused THEN v.time + (t - v.timestamp) ELSE v.time

\* The forceSync is sent whether or not a url is loaded.
ForceSyncToAlways(sk, c, st, t) ==
    EmitTo(sk, c, [type |-> "forceSync", url |-> st.currentVideoState.url,
                   time |-> EstimatedTime(st.currentVideoState, t),
                   paused |-> st.currentVideoState.paused])

\* The forceSync sent to one socket on connect and after authentication.
ForceSyncTo(sk, c, st, t) ==
    IF Truthy(st.currentVideoState.url)
    THEN EmitTo(sk, c, [type |-> "forceSync", url |-> st.currentVideoState.url,
                        time |-> EstimatedTime(st.currentVideoState, t),
                        paused |-> st.currentVideoState.paused])
    ELSE <<>>

\* ---------------------------------------------------------- persistence
\* part_011 defaultState (the ServerState with the queue).
DefaultState(t) ==
    [areUserControlsAllowed |-> FALSE, isProxyEnabled |-> TRUE,
     currentVideoState |-> VideoState("", 0, TRUE, t),
     videoQueue |-> <<>>, currentQueueIndex |-> -1]

\* src/services/state.service.ts defaultState (no queue keys).
DefaultStateNoQueue(t) ==
    [areUserControlsAllowed |-> FALSE, isProxyEnabled |-> TRUE,
     currentVideoState |-> VideoState("", 0, TRUE, t)]

\* JSON.stringify of an object drops the keys whose value is undefined.
StringifyVideoState(v) ==
    IF v.url = Undefined
    THEN [time |-> v.time, paused |-> v.paused, timestamp |-> v.timestamp]
    ELSE v

StringifyItem(q) ==
    IF q.url = Undefined THEN [id |-> q.id, addedBy |-> q.addedBy, addedAt |-> q.addedAt]
    ELSE q

JsonStringify(st) ==
    [areUserControlsAllowed |-> st.areUserControlsAllowed,
     isProxyEnabled |-> st.isProxyEnabled,
     currentVideoState |-> StringifyVideoState(st.currentVideoState),
     videoQueue |-> [i \in 1..Len(st.videoQueue) |-> StringifyItem(st.videoQueue[i])],
     currentQueueIndex |-> st.currentQueueIndex]

\* Reading a key a parsed object does not have yields undefined.
ParseVideoState(d) ==
    [url |-> IF "url" \in DOMAIN d THEN d.url ELSE Undefined,
     time |-> d.time, paused |-> d.paused, timestamp |-> d.timestamp]

ParseItem(d) ==
    [id |-> d.id, url |-> IF "url" \in DOMAIN d THEN d.url ELSE Undefined,
     addedBy |-> d.addedBy, addedAt |-> d.addedAt]

JsonParse(doc) ==
    [k \in DOMAIN doc |->
        IF k = "currentVideoState" THEN ParseVideoState(doc[k])
        ELSE IF k = "videoQueue" THEN [i \in 1..Len(doc[k]) |-> ParseItem(doc[k][i])]
        ELSE doc[k]]

\* { ...defaultState, ...JSON.parse(raw) }
SpreadOver(def, obj) ==
    [k \in (DOMAIN def) \cup (DOMAIN obj) |-> IF k \in DOMAIN obj THEN obj[k] ELSE def[k]]

\* The position is advanced by the downtime.
LoadStateAdvancing(doc, t) ==
    LET merged == SpreadOver(DefaultStateNoQueue(t), JsonParse(doc))
        v == merged.currentVideoState
    IN [merged EXCEPT !.currentVideoState =
            VideoState(v.url, v.time + (t - v.timestamp), TRUE, t)]

\* The persisted paused flag and timestamp are kept as they were written.
LoadStateAsWritten(doc, t) == SpreadOver(DefaultStateNoQueue(t), JsonParse(doc))

\* state.service.ts: force pause, keep the position, refresh the timestamp.
LoadState(doc, t) ==
    LET merged == SpreadOver(DefaultStateNoQueue(t), JsonParse(doc))
        v == merged.currentVideoState
    IN [merged EXCEPT !.currentVideoState = VideoState(v.url, v.time, TRUE, t)]

\* part_011: advance the position by the downtime, then pause and refresh.
LoadStateAdvance(doc, t) ==
    LET merged == SpreadOver(DefaultState(t), JsonParse(doc))
        v == merged.currentVideoState
        time == IF ~v.paused THEN v.time + (t - v.timestamp) ELSE v.time
    IN [merged EXCEPT !.currentVideoState = VideoState(v.url, time, TRUE, t)]

RecoveryVariants == {"pause", "advance"}

\* fs.writeFileSync may throw; persistState catches and logs.
WriteOutcomes == {TRUE, FALSE}

\* persistState(): the file after the call.
persistState(file, st, ok) == IF ok THEN <<JsonStringify(st)>> ELSE file
WrittenAfter(w, st, ok) == IF ok THEN st ELSE w

\* ------------------------------------------------------- initial states
NoRun == [kind |-> "idle"]

InitCommon ==
    /\ sock = [c \in Conn |-> "new"]
    /\ clients = <<>>
    /\ chatHistory = <<>>
    /\ appended = <<>>
    /\ now = 0
    /\ pending = {}
    /\ kickTimers = {}
    /\ running = NoRun
    /\ nextItem = 0
    /\ orphans = {}
    /\ sent = <<>>
    /\ last = [type |-> "boot"]
    /\ stateFile = <<>>
    /\ written = DefaultState(0)

\* Process start without a state file.
Init ==
    /\ InitCommon
    /\ adminEmail \in AdminEmails
    /\ serverState = DefaultState(0)

Idle == running = NoRun

\* The Client object a suspended handler still refers to: the registry record
\* while there is one, else the object kept alive by the handler (orphans).
IsOrphan(orph, c) == \E r \in orph : r.id = c
SenderRec(cl, orph, c) ==
    IF HasClient(cl, c) THEN ClientOf(cl, c)
    ELSE IF IsOrphan(orph, c) THEN CHOOSE r \in orph : r.id = c
    ELSE NewClient(c)

\* Assignments to the fields of sender reach the registry only while the
\* record is still in the Map.
StoreClient(cl, c, rec) ==
    IF HasClient(cl, c) THEN [cl EXCEPT ![ClientIdx(cl, c)] = rec] ELSE cl
StoreOrphan(cl, orph, c, rec) ==
    IF HasClient(cl, c) THEN orph ELSE {r \in orph : r.id # c} \cup {rec}

\* Objects no suspended handler refers to any more are collected.
Referenced(pend, run) ==
    {p.conn : p \in pend} \cup (IF run.kind = "idle" THEN {} ELSE {run.conn})
Collect(cl, oldcl, orph, pend, run) ==
    {r \in orph \cup {oldcl[i] : i \in 1..Len(oldcl)} :
        /\ ~HasClient(cl, r.id)
        /\ r.id \in Referenced(pend, run)}

\* --------------------------------------------------- connect / disconnect
\* io.on("connection")
Connect(c) ==
    /\ Idle
    /\ sock[c] = "new"
    /\ LET sk == [sock EXCEPT ![c] = "open"]
       IN /\ sock' = sk
          /\ clients' = Append(clients, NewClient(c))
          /\ sent' = EmitTo(sk, c, [type |-> "welcome", userId |-> TempUserId(c)])
                     \o EmitTo(sk, c, SystemStateMsg(serverState))
                     \o (IF Len(chatHistory) > 0
                         THEN EmitTo(sk, c, [type |-> "chat-history", messages |-> chatHistory])
                         ELSE <<>>)
                     \o ForceSyncTo(sk, c, serverState, now)
                     \o sendQueueStateTo(sk, c, serverState)
    /\ last' = [type |-> "connect", conn |-> c]
    /\ UNCHANGED <<serverState, stateFile, written, chatHistory, appended, now,
                   adminEmail, pending, kickTimers, running, nextItem, orphans>>

LeftNotice(nick) ==
    [type |-> "chat", nick |-> "System", text |-> <<nick, "left">>, isSystem |-> TRUE]

\* socket.on("disconnect"), run once the socket sk[c] has closed: the registry
\* after it, and what it emits.
LeaveClients(cl, c) == DeleteClient(cl, c)

\* The user list is computed before the record is deleted.
LeaveSentStale(sk, cl, c) ==
    IF HasClient(cl, c)
    THEN broadcastUserList(sk, cl)
         \o EmitAll(sk, LeftNotice(ClientOf(cl, c).nick))
    ELSE <<>>

\* The notice is pushed to the history, as broadcastChat does.
LeaveHistoryStored(h, cl, c) ==
    IF HasClient(cl, c)
    THEN (IF Len(h) >= MAX_HISTORY THEN Tail(h) ELSE h) \o <<LeftNotice(ClientOf(cl, c).nick)>>
    ELSE h

\* "We do NOT save 'User left' to history": the listener emits the notice
\* itself and leaves chatHistory alone.
LeaveHistory(h, cl, c) == h

LeaveSent(sk, cl, c) ==
    IF HasClient(cl, c)
    THEN broadcastUserList(sk, DeleteClient(cl, c))
         \o EmitAll(sk, LeftNotice(ClientOf(cl, c).nick))
    ELSE <<>>

\* The transport of c closes (the client left, or a ping timed out).
Disconnect(c) ==
    /\ Idle
    /\ sock[c] = "open"
    /\ LET sk == [sock EXCEPT ![c] = "closed"]
       IN /\ sock' = sk
          /\ clients' = LeaveClients(clients, c)
          /\ sent' = LeaveSent(sk, clients, c)
    /\ chatHistory' = LeaveHistory(chatHistory, clients, c)
    /\ kickTimers' = kickTimers \ {c}
    /\ orphans' = Collect(clients', clients, orphans, pending, running)
    /\ last' = [type |-> "disconnect", conn |-> c]
    /\ UNCHANGED <<serverState, stateFile, written, appended, now,
                   adminEmail, pending, running, nextItem>>

\* The clock advances.
Tick ==
    /\ Idle
    /\ now < MaxNow
    /\ now' = now + 1
    /\ sent' = <<>>
    /\ last' = [type |-> "tick"]
    /\ UNCHANGED <<clients, sock, serverState, stateFile, written, chatHistory, appended,
                   adminEmail, pending, kickTimers, running, nextItem, orphans>>

\* A message arrives on socket c and handleMessage finds its sender.
Receives(c) == Idle /\ sock[c] = "open" /\ HasClient(clients, c)

\* ------------------------------------------------------- authentication
RECURSIVE FirstWith(_, _, _, _)
\* for (const [socketId, client] of this.clients)
\*     if (client.userId === hashedUserId && socketId !== socket.id) { ...; break; }
FirstWith(cl, hashed, sid, from) ==
    IF from > Len(cl) THEN 0
    ELSE IF cl[from].userId = hashed /\ cl[from].id # sid THEN from
    ELSE FirstWith(cl, hashed, sid, from + 1)

\* The scan never finds a session.
FindExistingNone(cl, hashed, sid) == 0

FindExisting(cl, hashed, sid) == FirstWith(cl, hashed, sid, 1)

SessionReplaced(text) == [type |-> "session-replaced", text |-> text]

\* if (existingClient) { emit session-replaced; socket.disconnect(true);
\* clients.delete(...) }: disconnect(true) closes the socket and runs its
\* "disconnect" listener before it returns.
SupersedeSock(sk, cl, hashed, sid) ==
    LET ex == FindExisting(cl, hashed, sid)
    IN IF ex = 0 THEN sk ELSE [sk EXCEPT ![cl[ex].id] = "closed"]

\* The superseded record is left in the Map.
SupersedeClientsKept(cl, hashed, sid) == cl

SupersedeClients(cl, hashed, sid) ==
    LET ex == FindExisting(cl, hashed, sid)
    IN IF ex = 0 THEN cl ELSE DeleteClient(LeaveClients(cl, cl[ex].id), cl[ex].id)

SupersedeSent(sk, cl, hashed, sid, text) ==
    LET ex == FindExisting(cl, hashed, sid)
    IN IF ex = 0 THEN <<>>
       ELSE EmitTo(sk, cl[ex].id, SessionReplaced(text))
            \o LeaveSent(SupersedeSock(sk, cl, hashed, sid), cl, cl[ex].id)

Replaced(cl, hashed, sid) ==
    LET ex == FindExisting(cl, hashed, sid) IN IF ex = 0 THEN 0 ELSE cl[ex].id

\* payload.name || payload.given_name || payload.email?.split('@')[0] || "Google User"
NickOf(payload) == IF payload.name # "" THEN payload.name ELSE "Google User"

ErrorMsg(text) == [type |-> "error", text |-> text]

\* handleMessage, msg.type === 'auth-google', up to the first await.
AuthGoogle(c, tok) ==
    /\ Receives(c)
    /\ Cardinality(pending) < MaxPending
    /\ [conn |-> c, tok |-> tok, stage |-> "verify"] \notin pending
    /\ pending' = pending \cup {[conn |-> c, tok |-> tok, stage |-> "verify"]}
    /\ sent' = <<>>
    /\ last' = [type |-> "auth-google", conn |-> c]
    /\ UNCHANGED <<clients, sock, serverState, stateFile, written, chatHistory, appended,
                   now, adminEmail, kickTimers, running, nextItem, orphans>>

\* verifyIdToken rejects: the catch block answers with an error.
VerifyReject(p) ==
    /\ Idle
    /\ p \in pending /\ p.stage = "verify" /\ p.tok = InvalidToken
    /\ pending' = pending \ {p}
    /\ orphans' = Collect(clients, clients, orphans, pending', running)
    /\ sent' = EmitTo(sock, p.conn, ErrorMsg("Authentication failed"))
    /\ last' = [type |-> "auth-google-error", conn |-> p.conn, at |-> "verify"]
    /\ UNCHANGED <<clients, sock, serverState, stateFile, written, chatHistory, appended,
                   now, adminEmail, kickTimers, running, nextItem>>

\* The ticket carries no payload: if (payload) is skipped.
VerifyEmpty(p) ==
    /\ Idle
    /\ p \in pending /\ p.stage = "verify" /\ p.tok = EmptyTicket
    /\ pending' = pending \ {p}
    /\ orphans' = Collect(clients, clients, orphans, pending', running)
    /\ sent' = <<>>
    /\ last' = [type |-> "auth-google-empty", conn |-> p.conn]
    /\ UNCHANGED <<clients, sock, serverState, stateFile, written, chatHistory, appended,
                   now, adminEmail, kickTimers, running, nextItem>>

\* verifyIdToken resolves: lines 199-221, the deduplication.
VerifySupersede(p) ==
    /\ Idle
    /\ p \in pending /\ p.stage = "verify" /\ p.tok \in Accounts
    /\ LET h == hashGoogleId(p.tok.sub)
       IN /\ sock' = SupersedeSock(sock, clients, h, p.conn)
          /\ clients' = SupersedeClients(clients, h, p.conn)
          /\ sent' = SupersedeSent(sock, clients, h, p.conn,
                                   "You have been logged in from another device/tab")
          /\ running' = [kind |-> "google", conn |-> p.conn, acct |-> p.tok,
                         hashed |-> h, replaced |-> Replaced(clients, h, p.conn)]
          /\ kickTimers' = kickTimers \ {Replaced(clients, h, p.conn)}
          /\ chatHistory' = LeaveHistory(chatHistory, clients, Replaced(clients, h, p.conn))
    /\ pending' = pending \ {p}
    /\ orphans' = Collect(clients', clients, orphans, pending', running')
    /\ last' = [type |-> "auth-google-dedup", conn |-> p.conn]
    /\ UNCHANGED <<serverState, stateFile, written, appended, now, adminEmail, nextItem>>

LoginNotice(nick, how) ==
    [type |-> "chat", nick |-> "System", text |-> <<nick, how>>, isSystem |-> TRUE]

\* Lines 223-229: the sender takes the stable identifier.
InstallGoogle(rec, payload) ==
    [rec EXCEPT !.userId = hashGoogleId(payload.sub), !.googleId = payload.sub,
                !.isAuthenticated = TRUE, !.nick = NickOf(payload)]

\* Every address passes for the admin's.
IsAdminEmailAny(admin, email) == TRUE

\* adminEmail && email === adminEmail
IsAdminEmail(admin, email) == admin # "" /\ email = admin

\* Lines 231-242: the picture, and the admin flag for the configured address.
\* isAdmin is assigned from the comparison, whichever way it falls.
FinishGoogleRegrades(rec, payload, pic, admin) ==
    [rec EXCEPT !.picture = pic, !.isAdmin = IsAdminEmail(admin, payload.email)]

FinishGoogle(rec, payload, pic, admin) ==
    [rec EXCEPT !.picture = pic,
                !.isAdmin = IF IsAdminEmail(admin, payload.email) THEN TRUE ELSE @]

\* Lines 241-286: what the handler emits once the sender record is complete.
FinishGoogleSent(sk, cl, c, rec, payload, admin, st, t) ==
    (IF IsAdminEmail(admin, payload.email)
     THEN EmitTo(sk, c, [type |-> "admin-success"]) ELSE <<>>)
    \o broadcastUserList(sk, cl)
    \o EmitTo(sk, c, [type |-> "auth-success", nick |-> rec.nick, picture |-> rec.picture,
                      email |-> payload.email, userId |-> rec.userId])
    \o EmitTo(sk, c, SystemStateMsg(st))
    \o EmitOthers(sk, c, LoginNotice(rec.nick, "logged in with Google"))
    \o ForceSyncTo(sk, c, st, t)

\* The payload has a picture: install, then await cacheProfileImage.
GoogleInstallAwait ==
    /\ running.kind = "google" /\ running.acct.picture
    /\ LET c == running.conn
           rec == InstallGoogle(SenderRec(clients, orphans, c), running.acct)
       IN /\ clients' = StoreClient(clients, c, rec)
          /\ pending' = pending \cup
                 {[conn |-> c, tok |-> running.acct, stage |-> "cache",
                   replaced |-> running.replaced,
                   was |-> [userId |-> SenderRec(clients, orphans, c).userId,
                            nick |-> SenderRec(clients, orphans, c).nick,
                            isAuthenticated |->
                                SenderRec(clients, orphans, c).isAuthenticated]]}
          /\ orphans' = Collect(clients', clients,
                                StoreOrphan(clients, orphans, c, rec), pending', NoRun)
          /\ last' = [type |-> "auth-google-install", conn |-> c,
                      replaced |-> running.replaced]
    /\ running' = NoRun
    /\ sent' = <<>>
    /\ UNCHANGED <<sock, serverState, stateFile, written, chatHistory, appended, now,
                   adminEmail, kickTimers, nextItem>>

\* The payload has no picture: install and complete in one run.
GoogleInstallFinish ==
    /\ running.kind = "google" /\ ~running.acct.picture
    /\ LET c == running.conn
           rec == FinishGoogle(InstallGoogle(SenderRec(clients, orphans, c), running.acct),
                               running.acct, NoPicture, adminEmail)
       IN /\ clients' = StoreClient(clients, c, rec)
          /\ orphans' = Collect(clients', clients,
                                StoreOrphan(clients, orphans, c, rec), pending, NoRun)
          /\ sent' = FinishGoogleSent(sock, clients', c, rec, running.acct, adminEmail,
                                      serverState, now)
          /\ last' = [type |-> "auth-google-done", conn |-> c,
                      replaced |-> running.replaced, email |-> running.acct.email]
    /\ running' = NoRun
    /\ UNCHANGED <<sock, serverState, stateFile, written, chatHistory, appended, now,
                   adminEmail, pending, kickTimers, nextItem>>

\* cacheProfileImage resolves, with the cached path or (after a caught
\* download error) with the original url.
CachedPictures(payload) == {<<"uploads", payload.sub>>, <<"remote", payload.sub>>}

CacheResolve(p, pic) ==
    /\ Idle
    /\ p \in pending /\ p.stage = "cache"
    /\ pic \in CachedPictures(p.tok)
    /\ pending' = pending \ {p}
    /\ LET c == p.conn
           rec == FinishGoogle(SenderRec(clients, orphans, c), p.tok, pic, adminEmail)
       IN /\ clients' = StoreClient(clients, c, rec)
          /\ orphans' = Collect(clients', clients,
                                StoreOrphan(clients, orphans, c, rec), pending', NoRun)
          /\ sent' = FinishGoogleSent(sock, clients', c, rec, p.tok, adminEmail,
                                      serverState, now)
          /\ last' = [type |-> "auth-google-done", conn |-> c, replaced |-> 0,
                      email |-> p.tok.email]
    /\ UNCHANGED <<sock, serverState, stateFile, written, chatHistory, appended, now,
                   adminEmail, kickTimers, running, nextItem>>

\* The write stream of cacheProfileImage fails: its promise rejects outside the
\* function's try block and the rejection reaches the handler's catch.
CacheReject(p) ==
    /\ Idle
    /\ p \in pending /\ p.stage = "cache"
    /\ pending' = pending \ {p}
    /\ orphans' = Collect(clients, clients, orphans, pending', running)
    /\ sent' = EmitTo(sock, p.conn, ErrorMsg("Authentication failed"))
    /\ last' = [type |-> "auth-google-error", conn |-> p.conn, at |-> "cache",
                replaced |-> p.replaced, was |-> p.was]
    /\ UNCHANGED <<clients, sock, serverState, stateFile, written, chatHistory, appended,
                   now, adminEmail, kickTimers, running, nextItem>>

\* handleMessage, msg.type === 'auth-dev', email accepted: lines 299-318.
DevSupersede(c, email) ==
    /\ Receives(c)
    /\ IsAdminEmail(adminEmail, email)
    /\ LET h == hashGoogleId(email)
       IN /\ sock' = SupersedeSock(sock, clients, h, c)
          /\ clients' = SupersedeClients(clients, h, c)
          /\ sent' = SupersedeSent(sock, clients, h, c, "Dev session replaced")
          /\ running' = [kind |-> "dev", conn |-> c, email |-> email, hashed |-> h,
                         replaced |-> Replaced(clients, h, c)]
          /\ kickTimers' = kickTimers \ {Replaced(clients, h, c)}
          /\ chatHistory' = LeaveHistory(chatHistory, clients, Replaced(clients, h, c))
    /\ orphans' = Collect(clients', clients, orphans, pending, running')
    /\ last' = [type |-> "auth-dev-dedup", conn |-> c, email |-> email]
    /\ UNCHANGED <<serverState, stateFile, written, appended, now, adminEmail, pending,
                   nextItem>>

InstallDev(rec, email) ==
    [rec EXCEPT !.userId = hashGoogleId(email), !.googleId = email,
                !.isAuthenticated = TRUE, !.nick = "Dev Admin", !.isAdmin = TRUE,
                !.picture = NoPicture]

\* Lines 320-365.
DevInstall ==
    /\ running.kind = "dev"
    /\ LET c == running.conn
           rec == InstallDev(SenderRec(clients, orphans, c), running.email)
       IN /\ clients' = StoreClient(clients, c, rec)
          /\ sent' = broadcastUserList(sock, clients')
                     \o EmitTo(sock, c, [type |-> "auth-success", nick |-> rec.nick,
                                         email |-> running.email, userId |-> rec.userId])
                     \o EmitTo(sock, c, [type |-> "admin-success"])
                     \o EmitTo(sock, c, SystemStateMsg(serverState))
                     \o EmitOthers(sock, c, LoginNotice(rec.nick, "logged in via Dev Auth"))
                     \o ForceSyncTo(sock, c, serverState, now)
          /\ last' = [type |-> "auth-dev-done", conn |-> c, replaced |-> running.replaced,
                      email |-> running.email]
    /\ running' = NoRun
    /\ orphans' = Collect(clients', clients, orphans, pending, NoRun)
    /\ UNCHANGED <<sock, serverState, stateFile, written, chatHistory, appended, now,
                   adminEmail, pending, kickTimers, nextItem>>

\* auth-dev with another email, or with no ADMIN_EMAIL configured.
DevReject(c, email) ==
    /\ Receives(c)
    /\ ~IsAdminEmail(adminEmail, email)
    /\ sent' = EmitTo(sock, c, ErrorMsg("Dev Authentication failed"))
    /\ last' = [type |-> "auth-dev-error", conn |-> c, email |-> email]
    /\ UNCHANGED <<clients, sock, serverState, stateFile, written, chatHistory, appended,
                   now, adminEmail, pending, kickTimers, running, nextItem, orphans>>

\* ------------------------------------------------- the registry by itself
NextRegistry ==
    \/ \E c \in Conn : Connect(c)
    \/ \E c \in Conn : Disconnect(c)
    \/ \E c \in Conn, tok \in Accounts : AuthGoogle(c, tok)
    \/ \E p \in pending : VerifySupersede(p)
    \/ GoogleInstallAwait
    \/ GoogleInstallFinish
    \/ \E p \in pending : \E pic \in CachedPictures(p.tok) : CacheResolve(p, pic)
    \/ \E p \in pending : CacheReject(p)
    \/ \E c \in Conn, email \in DevEmails : DevSupersede(c, email)
    \/ DevInstall

\* Process start without a state file, ADMIN_EMAIL configured.
InitRegistry ==
    /\ InitCommon
    /\ adminEmail = "ann@example.org"
    /\ serverState = DefaultState(0)

SpecRegistry == Init /\ [][NextRegistry]_vars

\* ------------------------------------------------------ message handlers
\* The types handled only under "&& sender.isAdmin".
AdminOnly ==
    {"toggle-user-controls", "toggle-proxy", "get-users", "mute-user", "kick-user", "load",
     "queue-play-next", "queue-play-now", "queue-remove", "queue-reorder"}

Sender(c) == ClientOf(clients, c)

\* The test of sender.isAdmin is left out.
AdminGateOpen(rec) == TRUE

\* "&& sender.isAdmin" in the test of an admin-only handler.
AdminGate(rec) == rec.isAdmin

\* No test of handleMessage matches: the handler falls off its end.
Ignored ==
    /\ sent' = <<>>
    /\ UNCHANGED <<clients, sock, serverState, stateFile, written, chatHistory, appended,
                   now, adminEmail, pending, kickTimers, running, nextItem, orphans>>

\* Everyone may control the playback.
CanControlAlways(rec, st) == TRUE

\* if (sender.isAdmin || serverState.areUserControlsAllowed)
CanControl(rec, st) == rec.isAdmin \/ st.areUserControlsAllowed

\* A full history refuses the new entry.
PushHistoryKeepOldest(h, m) == IF Len(h) >= MAX_HISTORY THEN h ELSE Append(h, m)

\* chatHistory.push(m); if (chatHistory.length > MAX_HISTORY) chatHistory.shift()
PushHistory(h, m) ==
    IF Len(Append(h, m)) > MAX_HISTORY THEN Tail(Append(h, m)) ELSE Append(h, m)

\* nick, isAdmin and timestamp are read from the payload.
ChatEntryFromPayload(rec, payload, t) ==
    [type |-> "chat", nick |-> payload.nick, text |-> payload.text, isAdmin |-> payload.isAdmin,
     isSystem |-> FALSE, timestamp |-> payload.timestamp, picture |-> rec.picture,
     image |-> payload.image]

\* The StoredChatMessage built from a chat message: the text and image of the
\* payload, everything else from the sender record and the clock.
ChatEntry(rec, payload, t) ==
    [type |-> "chat", nick |-> rec.nick, text |-> payload.text, isAdmin |-> rec.isAdmin,
     isSystem |-> FALSE, timestamp |-> t, picture |-> rec.picture, image |-> payload.image]

\* msg.type === 'chat'
Chat(c, payload) ==
    /\ Receives(c)
    /\ Len(appended) < MaxAppends
    /\ LET m == ChatEntry(Sender(c), payload, now)
       IN /\ chatHistory' = PushHistory(chatHistory, m)
          /\ appended' = Append(appended, m)
          /\ sent' = EmitOthers(sock, c, m)
    /\ last' = [type |-> "chat", conn |-> c, msg |-> payload]
    /\ UNCHANGED <<clients, sock, serverState, stateFile, written, now, adminEmail,
                   pending, kickTimers, running, nextItem, orphans>>

\* broadcastChat(nick, text, isSystem)
SystemEntry(nick, text, isSystem, t) ==
    [type |-> "chat", nick |-> nick, text |-> text, isSystem |-> isSystem,
     isAdmin |-> FALSE, timestamp |-> t, image |-> Undefined]

ControlsNotice(st) ==
    IF st.areUserControlsAllowed THEN <<"User controls", "enabled">>
    ELSE <<"User controls", "disabled">>
ProxyNotice(st) ==
    IF st.isProxyEnabled THEN <<"Proxy Mode", "ENABLED">> ELSE <<"Proxy Mode", "DISABLED">>

\* msg.type === 'toggle-user-controls' && sender.isAdmin
ToggleUserControls(c, value, ok) ==
    /\ Receives(c)
    /\ IF AdminGate(Sender(c))
       THEN /\ Len(appended) < MaxAppends
            /\ LET st == [serverState EXCEPT !.areUserControlsAllowed = value]
                   m == SystemEntry("System", ControlsNotice(st), TRUE, now)
               IN /\ serverState' = st
                  /\ stateFile' = persistState(stateFile, st, ok)
                  /\ written' = WrittenAfter(written, st, ok)
                  /\ chatHistory' = PushHistory(chatHistory, m)
                  /\ appended' = Append(appended, m)
                  /\ sent' = broadcastSystemState(sock, st) \o EmitAll(sock, m)
            /\ UNCHANGED <<clients, sock, now, adminEmail, pending, kickTimers, running,
                           nextItem, orphans>>
       ELSE Ignored
    /\ last' = [type |-> "toggle-user-controls", conn |-> c, value |-> value, ok |-> ok]

\* msg.type === 'toggle-proxy' && sender.isAdmin
ToggleProxy(c, value, ok) ==
    /\ Receives(c)
    /\ IF AdminGate(Sender(c))
       THEN /\ Len(appended) < MaxAppends
            /\ LET st == [serverState EXCEPT !.isProxyEnabled = value]
                   m == SystemEntry("System", ProxyNotice(st), TRUE, now)
               IN /\ serverState' = st
                  /\ stateFile' = persistState(stateFile, st, ok)
                  /\ written' = WrittenAfter(written, st, ok)
                  /\ chatHistory' = PushHistory(chatHistory, m)
                  /\ appended' = Append(appended, m)
                  /\ sent' = broadcastSystemState(sock, st) \o EmitAll(sock, m)
            /\ UNCHANGED <<clients, sock, now, adminEmail, pending, kickTimers, running,
                           nextItem, orphans>>
       ELSE Ignored
    /\ last' = [type |-> "toggle-proxy", conn |-> c, value |-> value, ok |-> ok]

\* msg.type === 'get-users' && sender.isAdmin
GetUsers(c) ==
    /\ Receives(c)
    /\ IF AdminGate(Sender(c))
       THEN /\ sent' = sendUserListTo(sock, c, clients)
            /\ UNCHANGED <<clients, sock, serverState, stateFile, written, chatHistory, appended,
                           now, adminEmail, pending, kickTimers, running, nextItem, orphans>>
       ELSE Ignored
    /\ last' = [type |-> "get-users", conn |-> c]

RECURSIVE FirstUser(_, _, _)
\* for (const [_, client] of this.clients) if (client.userId === msg.targetId) {...; break;}
FirstUser(cl, targetId, from) ==
    IF from > Len(cl) THEN 0
    ELSE IF cl[from].userId = targetId THEN from
    ELSE FirstUser(cl, targetId, from + 1)

\* The identifiers a client may name: those on the user list, and a stale one.
TargetIds == {clients[i].userId : i \in 1..Len(clients)} \cup {TempUserId(0)}

\* msg.type === 'mute-user' && sender.isAdmin
MuteUser(c, targetId) ==
    /\ Receives(c)
    /\ IF AdminGate(Sender(c))
       THEN /\ LET i == FirstUser(clients, targetId, 1)
               IN IF i = 0
                  THEN clients' = clients /\ sent' = <<>>
                  ELSE /\ clients' = [clients EXCEPT ![i].isMuted = ~@]
                       /\ sent' = broadcastUserList(sock, clients')
            /\ UNCHANGED <<sock, serverState, stateFile, written, chatHistory, appended, now,
                           adminEmail, pending, kickTimers, running, nextItem, orphans>>
       ELSE Ignored
    /\ last' = [type |-> "mute-user", conn |-> c, targetId |-> targetId]

\* msg.type === 'kick-user' && sender.isAdmin
\* The kick message is sent and no close is scheduled.
KickUserNoTimer(c, targetId) ==
    /\ Receives(c)
    /\ IF AdminGate(Sender(c))
       THEN /\ LET i == FirstUser(clients, targetId, 1)
               IN IF i = 0
                  THEN sent' = <<>>
                  ELSE sent' = EmitTo(sock, clients[i].id, [type |-> "kick"])
            /\ UNCHANGED <<clients, sock, serverState, stateFile, written, chatHistory, appended,
                           now, adminEmail, pending, running, nextItem, orphans, kickTimers>>
       ELSE Ignored
    /\ last' = [type |-> "kick-user", conn |-> c, targetId |-> targetId]

KickUser(c, targetId) ==
    /\ Receives(c)
    /\ IF AdminGate(Sender(c))
       THEN /\ LET i == FirstUser(clients, targetId, 1)
               IN IF i = 0
                  THEN kickTimers' = kickTimers /\ sent' = <<>>
                  ELSE /\ kickTimers' = kickTimers \cup {clients[i].id}
                       /\ sent' = EmitTo(sock, clients[i].id, [type |-> "kick"])
            /\ UNCHANGED <<clients, sock, serverState, stateFile, written, chatHistory, appended,
                           now, adminEmail, pending, running, nextItem, orphans>>
       ELSE Ignored
    /\ last' = [type |-> "kick-user", conn |-> c, targetId |-> targetId]

\* setTimeout(() => client.socket.disconnect(true), 100) fires.
KickFire(c) ==
    /\ Idle
    /\ c \in kickTimers
    /\ sock[c] = "open"
    /\ LET sk == [sock EXCEPT ![c] = "closed"]
       IN /\ sock' = sk
          /\ clients' = LeaveClients(clients, c)
          /\ sent' = LeaveSent(sk, clients, c)
    /\ chatHistory' = LeaveHistory(chatHistory, clients, c)
    /\ kickTimers' = kickTimers \ {c}
    /\ orphans' = Collect(clients', clients, orphans, pending, running)
    /\ last' = [type |-> "kick-fire", conn |-> c]
    /\ UNCHANGED <<serverState, stateFile, written, appended, now,
                   adminEmail, pending, running, nextItem>>

\* The client's sync / forceSync message as forwarded: socket.broadcast.emit(msg).
SyncMsg(type, payload) ==
    [type |-> type, url |-> payload.url, time |-> payload.time, paused |-> payload.paused]

\* The timestamp of the stored state is kept.
SyncedStateUnstamped(st, payload, t) ==
    [st EXCEPT !.currentVideoState =
        VideoState(IF Truthy(payload.url) THEN payload.url ELSE st.currentVideoState.url,
                   payload.time, payload.paused, st.currentVideoState.timestamp)]

\* url: msg.url || serverState.currentVideoState.url
SyncedState(st, payload, t) ==
    [st EXCEPT !.currentVideoState =
        VideoState(IF Truthy(payload.url) THEN payload.url ELSE st.currentVideoState.url,
                   payload.time, payload.paused, t)]

\* msg.type === 'sync' || msg.type === 'forceSync'
Sync(c, type, payload, ok) ==
    /\ Receives(c)
    /\ type \in {"sync", "forceSync"}
    /\ IF CanControl(Sender(c), serverState)
       THEN LET st == SyncedState(serverState, payload, now)
            IN /\ serverState' = st
               /\ stateFile' = persistState(stateFile, st, ok)
               /\ written' = WrittenAfter(written, st, ok)
               /\ sent' = EmitOthers(sock, c, SyncMsg(type, payload))
       ELSE /\ sent' = <<>>
            /\ UNCHANGED <<serverState, stateFile, written>>
    /\ last' = [type |-> type, conn |-> c, msg |-> payload]
    /\ UNCHANGED <<clients, sock, chatHistory, appended, now, adminEmail, pending,
                   kickTimers, running, nextItem, orphans>>

\* The playback state is replaced as a whole, as by sync without a url.
TimeUpdatedWholesale(st, payload, t) ==
    [st EXCEPT !.currentVideoState = VideoState(Undefined, payload.time, payload.paused, t)]

\* currentVideoState.time = msg.time; .timestamp = Date.now(); .paused = msg.paused
TimeUpdated(st, payload, t) ==
    [st EXCEPT !.currentVideoState.time = payload.time,
               !.currentVideoState.timestamp = t,
               !.currentVideoState.paused = payload.paused]

\* msg.type === 'timeUpdate'
TimeUpdate(c, payload) ==
    /\ Receives(c)
    /\ IF CanControl(Sender(c), serverState)
       THEN serverState' = TimeUpdated(serverState, payload, now)
       ELSE UNCHANGED serverState
    /\ sent' = <<>>
    /\ last' = [type |-> "timeUpdate", conn |-> c, msg |-> payload]
    /\ UNCHANGED <<clients, sock, stateFile, written, chatHistory, appended, now,
                   adminEmail, pending, kickTimers, running, nextItem, orphans>>

\* msg.type === 'ready'
Ready(c, value) ==
    /\ Receives(c)
    /\ clients' = [clients EXCEPT ![ClientIdx(clients, c)].isReady = value]
    /\ sent' = broadcastUserList(sock, clients')
    /\ last' = [type |-> "ready", conn |-> c, value |-> value]
    /\ UNCHANGED <<sock, serverState, stateFile, written, chatHistory, appended, now,
                   adminEmail, pending, kickTimers, running, nextItem, orphans>>

\* The ready flags are left as they are.
ResetReadyNone(cl) == cl

\* for (const client of this.clients.values()) client.isReady = false
ResetReady(cl) == [i \in 1..Len(cl) |-> [cl[i] EXCEPT !.isReady = FALSE]]

\* msg.type === 'load' && sender.isAdmin
Load(c, url, ok) ==
    /\ Receives(c)
    /\ IF AdminGate(Sender(c))
       THEN /\ LET st == [serverState EXCEPT !.currentVideoState = VideoState(url, 0, TRUE, now)]
               IN /\ clients' = ResetReady(clients)
                  /\ serverState' = st
                  /\ stateFile' = persistState(stateFile, st, ok)
                  /\ written' = WrittenAfter(written, st, ok)
                  /\ sent' = broadcastUserList(sock, clients')
                             \o EmitAll(sock, [type |-> "load", url |-> url])
            /\ UNCHANGED <<sock, chatHistory, appended, now, adminEmail, pending, kickTimers,
                           running, nextItem, orphans>>
       ELSE Ignored
    /\ last' = [type |-> "load", conn |-> c, url |-> url, ok |-> ok]

\* msg.type === 'ping'
Ping(c, startTime) ==
    /\ Receives(c)
    /\ sent' = EmitTo(sock, c, [type |-> "pong", startTime |-> startTime])
    /\ last' = [type |-> "ping", conn |-> c]
    /\ UNCHANGED <<clients, sock, serverState, stateFile, written, chatHistory, appended,
                   now, adminEmail, pending, kickTimers, running, nextItem, orphans>>

\* ---------------------------------------------------------------- queue
\* The item built by queue-add and queue-play-next.  Its id is
\* `${Date.now()}_${random}`, modelled as a fresh number; the display metadata
\* (videoId, title, thumbnail, author, duration) is copied and never read.
QueueItem(n, video, rec, t) ==
    [id |-> n, url |-> video.url, addedBy |-> rec.userId, addedAt |-> t]

\* videoQueue.findIndex(item => item.id === msg.itemId), 0-based, -1 if none.
RECURSIVE FindIndexFrom(_, _, _)
FindIndexFrom(q, itemId, from) ==
    IF from > Len(q) THEN -1
    ELSE IF q[from].id = itemId THEN from - 1
    ELSE FindIndexFrom(q, itemId, from + 1)
FindIndex(q, itemId) == FindIndexFrom(q, itemId, 1)

\* The common tail of the queue handlers: persistState(); broadcastQueueState().
QueueCommit(st, ok) ==
    /\ serverState' = st
    /\ stateFile' = persistState(stateFile, st, ok)
    /\ written' = WrittenAfter(written, st, ok)
    /\ sent' = broadcastQueueState(sock, st)

\* msg.type === 'queue-add'
QueueAdd(c, video, ok) ==
    /\ Receives(c)
    /\ nextItem < MaxItems
    /\ nextItem' = nextItem + 1
    /\ QueueCommit([serverState EXCEPT !.videoQueue =
                       Append(@, QueueItem(nextItem + 1, video, Sender(c), now))], ok)
    /\ last' = [type |-> "queue-add", conn |-> c, ok |-> ok]
    /\ UNCHANGED <<clients, sock, chatHistory, appended, now, adminEmail, pending,
                   kickTimers, running, orphans>>

\* The item is put at the head and the index is left as it was.
PlayNextStateUnshifted(st, item) == [st EXCEPT !.videoQueue = <<item>> \o @]

\* videoQueue.unshift(item); if (currentQueueIndex >= 0) currentQueueIndex++
PlayNextState(st, item) ==
    [st EXCEPT !.videoQueue = <<item>> \o @,
               !.currentQueueIndex = IF @ >= 0 THEN @ + 1 ELSE @]

\* msg.type === 'queue-play-next' && sender.isAdmin
QueuePlayNext(c, video, ok) ==
    /\ Receives(c)
    /\ IF AdminGate(Sender(c))
       THEN /\ nextItem < MaxItems
            /\ nextItem' = nextItem + 1
            /\ QueueCommit(PlayNextState(serverState,
                               QueueItem(nextItem + 1, video, Sender(c), now)), ok)
            /\ UNCHANGED <<clients, sock, chatHistory, appended, now, adminEmail, pending,
                           kickTimers, running, orphans>>
       ELSE Ignored
    /\ last' = [type |-> "queue-play-next", conn |-> c, ok |-> ok]

\* The media is loaded and the index is left as it was.
PlayNowStateKeepIndex(st, video, t) ==
    [st EXCEPT !.currentVideoState = VideoState(video.url, 0, FALSE, t)]

\* currentQueueIndex = -1; currentVideoState = { url: msg.video.url, time: 0,
\* paused: false, timestamp: Date.now() }
PlayNowState(st, video, t) ==
    [st EXCEPT !.currentQueueIndex = -1,
               !.currentVideoState = VideoState(video.url, 0, FALSE, t)]

\* msg.type === 'queue-play-now' && sender.isAdmin
QueuePlayNow(c, video, ok) ==
    /\ Receives(c)
    /\ IF AdminGate(Sender(c))
       THEN /\ LET st == PlayNowState(serverState, video, now)
               IN /\ serverState' = st
                  /\ stateFile' = persistState(stateFile, st, ok)
                  /\ written' = WrittenAfter(written, st, ok)
                  /\ sent' = EmitAll(sock, [type |-> "load", url |-> video.url])
            /\ UNCHANGED <<clients, sock, chatHistory, appended, now, adminEmail, pending,
                           kickTimers, running, nextItem, orphans>>
       ELSE Ignored
    /\ last' = [type |-> "queue-play-now", conn |-> c, url |-> video.url, ok |-> ok]

\* The item is deleted and the index is left as it was.
RemoveStateKeepIndex(st, itemIndex) ==
    [st EXCEPT !.videoQueue = RemoveAt(@, itemIndex + 1)]

\* splice(itemIndex, 1) and the adjustment of currentQueueIndex.
RemoveState(st, itemIndex) ==
    [st EXCEPT !.videoQueue = RemoveAt(@, itemIndex + 1),
               !.currentQueueIndex = IF @ > itemIndex THEN @ - 1
                                     ELSE IF @ = itemIndex THEN -1 ELSE @]

\* msg.type === 'queue-remove' && sender.isAdmin
\* persistState and broadcastQueueState are called outside the itemIndex test.
QueueRemoveAlwaysCommits(c, itemId, ok) ==
    /\ Receives(c)
    /\ IF AdminGate(Sender(c))
       THEN LET itemIndex == FindIndex(serverState.videoQueue, itemId)
            IN /\ QueueCommit(IF itemIndex # -1 THEN RemoveState(serverState, itemIndex)
                                                ELSE serverState, ok)
               /\ UNCHANGED <<clients, sock, chatHistory, appended, now, adminEmail,
                              pending, kickTimers, running, nextItem, orphans>>
       ELSE Ignored
    /\ last' = [type |-> "queue-remove", conn |-> c, itemId |-> itemId, ok |-> ok,
                index |-> serverState.currentQueueIndex]

QueueRemove(c, itemId, ok) ==
    /\ Receives(c)
    /\ IF AdminGate(Sender(c))
       THEN LET itemIndex == FindIndex(serverState.videoQueue, itemId)
            IN IF itemIndex # -1
               THEN /\ QueueCommit(RemoveState(serverState, itemIndex), ok)
                    /\ UNCHANGED <<clients, sock, chatHistory, appended, now, adminEmail,
                                   pending, kickTimers, running, nextItem, orphans>>
               ELSE Ignored
       ELSE Ignored
    /\ last' = [type |-> "queue-remove", conn |-> c, itemId |-> itemId, ok |-> ok,
                index |-> serverState.currentQueueIndex]

\* const [item] = q.splice(fromIndex, 1); q.splice(toIndex, 0, item)
MoveItem(q, fromIndex, toIndex) ==
    InsertAt(RemoveAt(q, fromIndex + 1), toIndex + 1, q[fromIndex + 1])

\* Only a move of the current item adjusts the index.
ReorderIndexNaive(cur, fromIndex, toIndex) == IF cur = fromIndex THEN toIndex ELSE cur

\* The adjustment of currentQueueIndex after a move.
ReorderIndex(cur, fromIndex, toIndex) ==
    IF cur = fromIndex THEN toIndex
    ELSE IF fromIndex < cur /\ toIndex >= cur THEN cur - 1
    ELSE IF fromIndex > cur /\ toIndex <= cur THEN cur + 1
    ELSE cur

InRange(q, i) == i >= 0 /\ i < Len(q)

\* msg.type === 'queue-reorder' && sender.isAdmin
QueueReorder(c, fromIndex, toIndex, ok) ==
    /\ Receives(c)
    /\ IF AdminGate(Sender(c))
       THEN IF InRange(serverState.videoQueue, fromIndex)
               /\ InRange(serverState.videoQueue, toIndex)
            THEN /\ QueueCommit(
                        [serverState EXCEPT
                            !.videoQueue = MoveItem(@, fromIndex, toIndex),
                            !.currentQueueIndex = ReorderIndex(@, fromIndex, toIndex)], ok)
                 /\ UNCHANGED <<clients, sock, chatHistory, appended, now, adminEmail,
                                pending, kickTimers, running, nextItem, orphans>>
            ELSE Ignored
       ELSE Ignored
    /\ last' = [type |-> "queue-reorder", conn |-> c, fromIndex |-> fromIndex,
                toIndex |-> toIndex, ok |-> ok,
                index |-> serverState.currentQueueIndex]

\* msg.type === 'queue-get'
QueueGet(c) ==
    /\ Receives(c)
    /\ sent' = sendQueueStateTo(sock, c, serverState)
    /\ last' = [type |-> "queue-get", conn |-> c]
    /\ UNCHANGED <<clients, sock, serverState, stateFile, written, chatHistory, appended,
                   now, adminEmail, pending, kickTimers, running, nextItem, orphans>>

\* The head is played again instead of being removed.
EndedStateKeepHead(st, t) ==
    [st EXCEPT !.currentQueueIndex = 0,
               !.currentVideoState = VideoState(st.videoQueue[1].url, 0, FALSE, t)]

\* When the last item is consumed the index is left at the head.
EndedStateIndexKept(st, t) ==
    LET rest == Tail(st.videoQueue)
    IN IF Len(rest) > 0
       THEN [st EXCEPT !.videoQueue = rest, !.currentQueueIndex = 0,
                       !.currentVideoState = VideoState(rest[1].url, 0, FALSE, t)]
       ELSE [st EXCEPT !.videoQueue = rest, !.currentQueueIndex = 0]

\* When the last item is consumed the playback state is cleared as well.
EndedStateStop(st, t) ==
    LET rest == Tail(st.videoQueue)
    IN IF Len(rest) > 0
       THEN [st EXCEPT !.videoQueue = rest, !.currentQueueIndex = 0,
                       !.currentVideoState = VideoState(rest[1].url, 0, FALSE, t)]
       ELSE [st EXCEPT !.videoQueue = rest, !.currentQueueIndex = -1,
                       !.currentVideoState = VideoState("", 0, TRUE, t)]

\* The state after a video-ended with a non-empty queue: shift(), then load
\* the new head or mark the queue finished.
EndedState(st, t) ==
    LET rest == Tail(st.videoQueue)
    IN IF Len(rest) > 0
       THEN [st EXCEPT !.videoQueue = rest, !.currentQueueIndex = 0,
                       !.currentVideoState = VideoState(rest[1].url, 0, FALSE, t)]
       ELSE [st EXCEPT !.videoQueue = rest, !.currentQueueIndex = -1]

\* msg.type === 'video-ended'
VideoEnded(c, ok) ==
    /\ Receives(c)
    /\ IF Len(serverState.videoQueue) > 0
       THEN LET st == EndedState(serverState, now)
            IN /\ serverState' = st
               /\ stateFile' = persistState(stateFile, st, ok)
               /\ written' = WrittenAfter(written, st, ok)
               /\ sent' = (IF Len(st.videoQueue) > 0
                           THEN EmitAll(sock, [type |-> "load", url |-> st.videoQueue[1].url])
                           ELSE <<>>)
                          \o broadcastQueueState(sock, st)
       ELSE /\ sent' = <<>>
            /\ UNCHANGED <<serverState, stateFile, written>>
    /\ last' = [type |-> "video-ended", conn |-> c, ok |-> ok,
                index |-> serverState.currentQueueIndex,
                length |-> Len(serverState.videoQueue)]
    /\ UNCHANGED <<clients, sock, chatHistory, appended, now, adminEmail, pending,
                   kickTimers, running, nextItem, orphans>>

\* ------------------------------------------------------- specifications
\* A room in use: connection 1 has authenticated through auth-dev and is the
\* admin, connection 2 has connected and not authenticated; the process was
\* started on the state file of an earlier run, in which the admin had set the
\* controls flag either way.
AdminClient(sid) == InstallDev(NewClient(sid), "ann@example.org")

InitWith(cl) ==
    /\ sock = [c \in Conn |-> IF HasClient(cl, c) THEN "open" ELSE "new"]
    /\ clients = cl
    /\ chatHistory = <<>>
    /\ appended = <<>>
    /\ now = 0
    /\ pending = {}
    /\ kickTimers = {}
    /\ running = NoRun
    /\ nextItem = 0
    /\ orphans = {}
    /\ sent = <<>>
    /\ last = [type |-> "boot"]
    /\ adminEmail = "ann@example.org"
    /\ \E flag \in BOOLEAN :
          LET st == [DefaultState(0) EXCEPT !.areUserControlsAllowed = flag]
          IN /\ written = st
             /\ stateFile = persistState(<<>>, st, TRUE)
             /\ serverState = LoadStateAdvance(stateFile[1], 0)

InitOne == InitWith(<<AdminClient(1)>>)
InitTwo == InitWith(<<AdminClient(1), NewClient(2)>>)

\* A chat payload; a client may add fields of its own (nick, isAdmin,
\* timestamp), which the handler does not read.
ChatPayload(n) ==
    [text |-> <<"say", n>>, image |-> Undefined, nick |-> "Spoofed", isAdmin |-> TRUE,
     timestamp |-> -1]

Bob == [sub |-> "g2", name |-> "Bob", email |-> "bob@example.org", picture |-> FALSE]

\* The playback arbiter: late joiners, authentications and playback messages.
\* Connection 1 is the admin; the others connect and authenticate later.
NextPlayback ==
    \/ \E c \in Conn \ {1} : Connect(c)
    \/ Tick
    \/ \E m \in [url : {Undefined, "u2"}, time : Times, paused : BOOLEAN] :
          Sync(1, "sync", m, TRUE)
    \/ \E url \in {"u1", ""} : Load(1, url, TRUE)
    \/ \E c \in Conn \ {1} : AuthGoogle(c, Bob)
    \/ \E p \in pending : VerifySupersede(p)
    \/ GoogleInstallFinish
    \/ \E c \in Conn \ {1} : DevSupersede(c, "ann@example.org")
    \/ DevInstall

SpecPlayback == InitOne /\ [][NextPlayback]_vars

\* The k-th video put on the queue.
VideoFor(k) == [url |-> IF k % 2 = 1 THEN "u1" ELSE "u2"]

\* The queue manager: the guest adds and reports the end of videos, the admin
\* inserts, removes and reorders.
NextQueue ==
    \/ QueueAdd(2, VideoFor(nextItem + 1), TRUE)
    \/ QueuePlayNext(1, VideoFor(nextItem + 1), TRUE)
    \/ QueuePlayNow(1, VideoFor(nextItem + 1), TRUE)
    \/ \E id \in 0..nextItem : QueueRemove(1, id, TRUE)
    \/ \E i, j \in 0..Len(serverState.videoQueue) : QueueReorder(1, i, j, TRUE)
    \/ VideoEnded(2, TRUE)

SpecQueue == InitTwo /\ [][NextQueue]_vars

\* A guest that has authenticated with Google as Bob (no picture, not admin).
BobClient(sid) == FinishGoogle(InstallGoogle(NewClient(sid), Bob), Bob, NoPicture, "ann@example.org")

InitGate ==
    \E guest \in {NewClient(2), BobClient(2)} : InitWith(<<AdminClient(1), guest>>)

\* The authorization gate: the guest sends every admin-only message type,
\* puts videos on the queue and chats; the admin mutes.
NextGate ==
    \/ \E v \in BOOLEAN : ToggleUserControls(2, v, TRUE)
    \/ \E v \in BOOLEAN : ToggleProxy(2, v, TRUE)
    \/ GetUsers(2)
    \/ \E c \in Conn : \E t \in TargetIds : MuteUser(c, t)
    \/ \E t \in TargetIds : KickUser(2, t)
    \/ Load(2, "u1", TRUE)
    \/ QueueAdd(2, VideoFor(nextItem + 1), TRUE)
    \/ QueuePlayNext(2, VideoFor(nextItem + 1), TRUE)
    \/ QueuePlayNow(2, VideoFor(nextItem + 1), TRUE)
    \/ \E id \in 1..nextItem : QueueRemove(2, id, TRUE)
    \/ \E i, j \in 0..(Len(serverState.videoQueue) - 1) : QueueReorder(2, i, j, TRUE)
    \/ Len(appended) < MaxChats /\ Chat(2, ChatPayload(Len(appended) + 1))

SpecGate == InitGate /\ [][NextGate]_vars

\* Playback control: sync, forceSync and timeUpdate from the admin and the guest.
NextControls ==
    \/ \E m \in [url : {Undefined, "u2"}, time : {MaxTime}, paused : BOOLEAN] :
          Sync(1, "sync", m, TRUE)
    \/ \E type \in {"sync", "forceSync"} :
          \E m \in [url : {Undefined, "u1"}, time : {0}, paused : BOOLEAN] :
             Sync(2, type, m, TRUE)
    \/ \E c \in Conn : \E m \in [time : {0, MaxTime}, paused : {FALSE}] : TimeUpdate(c, m)
    \/ Tick

SpecControls == InitGate /\ [][NextControls]_vars

\* Chat among the admin and the guest, with mutes and control toggles.
NextTalk ==
    \/ \E c \in Conn : Len(appended) < MaxChats /\ Chat(c, ChatPayload(Len(appended) + 1))
    \/ \E t \in TargetIds : MuteUser(1, t)
    \/ \E v \in BOOLEAN : Len(appended) < MaxChats /\ ToggleUserControls(1, v, TRUE)
    \/ Tick

SpecTalk == InitGate /\ [][NextTalk]_vars

\* The chat history under a flood of chat messages from the guest (as in
\* scripts/load-test.ts), with a bounded number of admin toggles in between.
Notices == Cardinality({i \in 1..Len(appended) : appended[i].isSystem})

NextChat ==
    \/ Chat(2, ChatPayload(Len(appended) + 1))
    \/ /\ Notices < MaxNotices
       /\ ToggleUserControls(1, ~serverState.areUserControlsAllowed, TRUE)
    \/ /\ Notices < MaxNotices
       /\ ToggleProxy(1, ~serverState.isProxyEnabled, TRUE)

SpecChat == InitTwo /\ [][NextChat]_vars

\* ------------------------------------------------------------ restart
\* The process stops and starts again with server-state.json present: every
\* socket is gone, the registry and the chat history start empty, the room
\* state is what the build's state.service loads.
Restart(variant) ==
    /\ Idle
    /\ stateFile # <<>>
    /\ serverState' = IF variant = "pause" THEN LoadState(stateFile[1], now)
                      ELSE LoadStateAdvance(stateFile[1], now)
    /\ clients' = <<>>
    /\ sock' = [c \in Conn |-> IF sock[c] = "open" THEN "closed" ELSE sock[c]]
    /\ chatHistory' = <<>>
    /\ appended' = <<>>
    /\ pending' = {}
    /\ kickTimers' = {}
    /\ orphans' = {}
    /\ sent' = <<>>
    /\ last' = [type |-> "restart", variant |-> variant]
    /\ UNCHANGED <<stateFile, written, now, adminEmail, running, nextItem>>

NextBoot ==
    \/ \E ok \in WriteOutcomes :
          Sync(1, "sync", [url |-> "u2", time |-> MaxTime, paused |-> FALSE], ok)
    \/ Load(1, Undefined, TRUE)
    \/ Len(appended) < MaxNotices /\ ToggleProxy(1, ~serverState.isProxyEnabled, TRUE)
    \/ QueueAdd(2, VideoFor(nextItem + 1), TRUE)
    \/ VideoEnded(2, TRUE)
    \/ Tick
    \/ \E variant \in RecoveryVariants : Restart(variant)

SpecBoot == InitTwo /\ [][NextBoot]_vars

\* --------------------------------------------------------------- claims
IsStable(uid) == uid[1] = "sha256"

\* C1: in every reachable state of the registry, no two registered
\* connections have the same stable (hashed) identifier as their userId.
C1_SingleSession ==
    \A i, j \in 1..Len(clients) :
        (i # j /\ IsStable(clients[i].userId)) => clients[i].userId # clients[j].userId

\* A connection holds a stable identifier after having superseded another one.
C1_Witness ==
    /\ last.type \in {"auth-google-done", "auth-dev-done", "auth-google-install"}
    /\ last.replaced # 0
    /\ HasClient(clients, last.conn)
    /\ IsStable(ClientOf(clients, last.conn).userId)

\* C2: when an authentication has found another registered connection A with
\* its stable identifier, then at the point where the authenticating record is
\* about to be given the identifier, A has been sent session-replaced first,
\* A's socket is closed, A's record is out of the registry and no registered
\* record holds the identifier.
C2_SupersedeBeforeInstall ==
    (running.kind # "idle" /\ running.replaced # 0) =>
        /\ Len(sent) >= 1
        /\ sent[1].to = running.replaced
        /\ sent[1].msg.type = "session-replaced"
        /\ sock[running.replaced] = "closed"
        /\ ~HasClient(clients, running.replaced)
        /\ \A i \in 1..Len(clients) : clients[i].userId # running.hashed

C2_Witness ==
    /\ running.kind # "idle"
    /\ running.replaced # 0
    /\ HasClient(clients, running.conn)

\* C3: on connect and after a completed auth-google or auth-dev, the forceSync
\* sent to the connection carries the stored url and paused flag, and as time
\* the stored time when paused, the stored time plus the time elapsed since the
\* stored timestamp when playing; with an empty stored url none is sent.
C3_ForceSyncEstimate ==
    last.type \in {"connect", "auth-google-done", "auth-dev-done"} =>
        LET v == serverState.currentVideoState
            fs == SelectSeq(sent, LAMBDA e : e.msg.type = "forceSync")
        IN IF v.url \in {"", Undefined} \/ sock[last.conn] # "open"
           THEN fs = <<>>
           ELSE fs = << [to |-> last.conn,
                         msg |-> [type |-> "forceSync", url |-> v.url,
                                  time |-> IF v.paused THEN v.time
                                           ELSE v.time + (now - v.timestamp),
                                  paused |-> v.paused]] >>

C3_Witness ==
    /\ last.type = "auth-google-done"
    /\ serverState.currentVideoState.paused
    /\ serverState.currentVideoState.time > 0
    /\ now > serverState.currentVideoState.timestamp
    /\ \E i \in 1..Len(sent) : sent[i].msg.type = "forceSync" /\ sent[i].to = last.conn

\* C4: a video-ended message processed with a non-empty queue and
\* currentQueueIndex = 0 removes exactly the head; if items remain the former
\* second item is the head, the index is 0 and the playback state is the new
\* head's url at time 0, playing; if none remains the index is -1; the removed
\* item is no longer in the queue.
C4_VideoEndedConsumesHead ==
    [][ (last'.type = "video-ended" /\ Len(serverState.videoQueue) >= 1
             /\ serverState.currentQueueIndex = 0) =>
        LET q == serverState.videoQueue
            q2 == serverState'.videoQueue
            v2 == serverState'.currentVideoState
        IN /\ q2 = Tail(q)
           /\ \A i \in 1..Len(q2) : q2[i].id # q[1].id
           /\ IF Len(q) >= 2
              THEN /\ serverState'.currentQueueIndex = 0
                   /\ q2[1] = q[2]
                   /\ v2.url = q[2].url /\ v2.time = 0 /\ v2.paused = FALSE
              ELSE /\ q2 = <<>>
                   /\ serverState'.currentQueueIndex = -1 ]_vars

C4_Witness ==
    /\ last.type = "video-ended"
    /\ last.index = 0
    /\ last.length >= 2
    /\ serverState.currentQueueIndex = 0
    /\ serverState.currentVideoState.url = serverState.videoQueue[1].url

\* C5: an in-range queue-reorder by an admin moves the item at fromIndex to
\* toIndex and keeps the others in their order; a currentQueueIndex that
\* designated an item designates the item with the same id afterwards, and
\* -1 stays -1.
C5_ReorderTracksCurrent ==
    [][ (last'.type = "queue-reorder"
             /\ ClientOf(clients, last'.conn).isAdmin
             /\ InRange(serverState.videoQueue, last'.fromIndex)
             /\ InRange(serverState.videoQueue, last'.toIndex)) =>
        LET q == serverState.videoQueue
            q2 == serverState'.videoQueue
            cur == serverState.currentQueueIndex
            cur2 == serverState'.currentQueueIndex
            f == last'.fromIndex + 1
            t == last'.toIndex + 1
        IN /\ Len(q2) = Len(q)
           /\ q2[t] = q[f]
           /\ SelectSeq(q2, LAMBDA x : x.id # q[f].id) = SelectSeq(q, LAMBDA x : x.id # q[f].id)
           /\ (cur = -1) => (cur2 = -1)
           /\ InRange(q, cur) => (InRange(q2, cur2) /\ q2[cur2 + 1].id = q[cur + 1].id) ]_vars

C5_Witness ==
    /\ last.type = "queue-reorder"
    /\ ClientOf(clients, last.conn).isAdmin
    /\ last.fromIndex # last.toIndex
    /\ InRange(serverState.videoQueue, last.fromIndex)
    /\ InRange(serverState.videoQueue, last.toIndex)
    /\ last.index >= 0
    /\ last.index # last.fromIndex
    /\ serverState.currentQueueIndex # last.index

\* C6: a sync, forceSync or timeUpdate from a participant that is not admin,
\* processed while areUserControlsAllowed is false, leaves the playback state
\* and the persisted snapshot as they were and sends nothing.
C6_ControlsGate ==
    [][ (last'.type \in {"sync", "forceSync", "timeUpdate"}
             /\ ~ClientOf(clients, last'.conn).isAdmin
             /\ ~serverState.areUserControlsAllowed) =>
        /\ serverState'.currentVideoState = serverState.currentVideoState
        /\ stateFile' = stateFile
        /\ sent' = <<>> ]_vars

C6_Witness ==
    /\ last.type \in {"sync", "forceSync"}
    /\ ~ClientOf(clients, last.conn).isAdmin
    /\ ~serverState.areUserControlsAllowed
    /\ last.msg.url = "u1"
    /\ serverState.currentVideoState.url = "u2"
    /\ \E d \in Conn \ {last.conn} : sock[d] = "open"

\* C7: a chat message from a registered participant appends one entry to the
\* chat history and sends that entry to every other open connection and not to
\* the sender; nick, isAdmin and timestamp of the entry are those of the
\* participant's record and of the server clock, isSystem is false.
C7_ChatAlwaysRelayed ==
    [][ (last'.type = "chat") =>
        LET c == last'.conn
            rec == ClientOf(clients, c)
            e == chatHistory'[Len(chatHistory')]
            others == {d \in Conn \ {c} : sock[d] = "open"}
        IN /\ Len(chatHistory') = Len(chatHistory) + 1
           /\ SubSeq(chatHistory', 1, Len(chatHistory)) = chatHistory
           /\ e.text = last'.msg.text
           /\ e.nick = rec.nick /\ e.isAdmin = rec.isAdmin /\ e.timestamp = now
           /\ e.isSystem = FALSE
           /\ Len(sent') = Cardinality(others)
           /\ \A d \in others : \E i \in 1..Len(sent') : sent'[i] = [to |-> d, msg |-> e]
           /\ \A i \in 1..Len(sent') : sent'[i].to # c ]_vars

C7_Witness ==
    /\ last.type = "chat"
    /\ LET rec == ClientOf(clients, last.conn)
       IN /\ rec.isMuted /\ ~rec.isAdmin /\ ~rec.isAuthenticated
          /\ last.msg.nick # rec.nick
          /\ chatHistory[Len(chatHistory)].nick = rec.nick
    /\ ~serverState.areUserControlsAllowed
    /\ \E i \in 1..Len(sent) : sent[i].to # last.conn

\* C8: an admin-only message from a participant whose isAdmin is false changes
\* neither the room state, the registry, the sockets, the chat history nor the
\* persisted snapshot, and nothing is sent to anyone.
C8_AdminOnlyDropped ==
    [][ (last'.type \in AdminOnly /\ ~ClientOf(clients, last'.conn).isAdmin) =>
        /\ UNCHANGED <<serverState, clients, sock, chatHistory, stateFile, kickTimers>>
        /\ sent' = <<>> ]_vars

C8_Witness ==
    /\ last.type = "queue-remove"
    /\ ~ClientOf(clients, last.conn).isAdmin
    /\ \E i \in 1..Len(serverState.videoQueue) : serverState.videoQueue[i].id = last.itemId

\* C9: the chat history never holds more than 50 entries and is the most
\* recent min(n, 50) of the n entries appended so far, oldest first.
C9_HistoryBound ==
    LET n == Len(appended)
        k == IF n < 50 THEN n ELSE 50
    IN /\ Len(chatHistory) <= 50
       /\ chatHistory = SubSeq(appended, n - k + 1, n)

C9_Witness ==
    /\ Len(appended) > 50
    /\ Len(chatHistory) = 50
    /\ \E i \in 1..Len(chatHistory) : chatHistory[i].isSystem

\* C10: after a restart with the recovery of src/services/state.service.ts the
\* room state equals the last written one in areUserControlsAllowed,
\* isProxyEnabled, url, time, queue and currentQueueIndex.
C10_RoundTrip ==
    (last.type = "restart" /\ last.variant = "pause") =>
        /\ serverState.areUserControlsAllowed = written.areUserControlsAllowed
        /\ serverState.isProxyEnabled = written.isProxyEnabled
        /\ serverState.currentVideoState.url = written.currentVideoState.url
        /\ serverState.currentVideoState.time = written.currentVideoState.time
        /\ serverState.videoQueue = written.videoQueue
        /\ serverState.currentQueueIndex = written.currentQueueIndex

C10_Witness ==
    /\ last.type = "restart" /\ last.variant = "pause"
    /\ ~written.currentVideoState.paused
    /\ serverState.currentVideoState.paused
    /\ now > written.currentVideoState.timestamp
    /\ Len(serverState.videoQueue) >= 1
    /\ written.isProxyEnabled

\* The message types whose handler assigns to serverState.
Mutating ==
    {"toggle-user-controls", "toggle-proxy", "sync", "forceSync", "timeUpdate", "load",
     "queue-add", "queue-play-next", "queue-play-now", "queue-remove", "queue-reorder",
     "video-ended"}

\* C11: once the handler of a message that changes the room state has
\* completed, and no write failed, server-state.json holds the room state in
\* memory; an authorized timeUpdate included.
C11_SnapshotCurrent ==
    last.type \in Mutating => stateFile = <<JsonStringify(serverState)>>

\* ------------------------------------------------- messages that throw
\* The process after process.exit(1): no handler runs any more.
Exited == [kind |-> "exited", conn |-> 0, replaced |-> 0]

\* Messages on which handleMessage dereferences undefined: a null message
\* (msg.type), and queue-add, queue-play-next, queue-play-now without a video
\* field (msg.video.videoId, msg.video.url).
ThrowingTypes == {"null", "queue-add", "queue-play-next", "queue-play-now"}

\* Whether the handler reaches the dereference: the tests of queue-play-next
\* and queue-play-now short-circuit on sender.isAdmin.
Throws(rec, type) == type \in {"null", "queue-add"} \/ AdminGate(rec)

\* queue-play-now assigns currentQueueIndex before it reads msg.video.url.
StateAtThrow(st, type) ==
    IF type = "queue-play-now" THEN [st EXCEPT !.currentQueueIndex = -1] ELSE st

\* process.on("unhandledRejection", ...): logger.error(err); process.exit(1).
\* Every socket closes with the process and the registry is gone.
UnhandledRejection(sk, cl, run) ==
    [sock |-> [d \in DOMAIN sk |-> IF sk[d] = "open" THEN "closed" ELSE sk[d]],
     clients |-> <<>>, running |-> Exited]

\* socket.on("message"): handleMessage is async, so the TypeError rejects the
\* promise it returns; the try/catch around the call, which does not await,
\* catches nothing.
Malformed(c, type) ==
    /\ Receives(c)
    /\ type \in ThrowingTypes
    /\ IF Throws(Sender(c), type)
       THEN LET after == UnhandledRejection(sock, clients, running)
            IN /\ serverState' = StateAtThrow(serverState, type)
               /\ sock' = after.sock
               /\ clients' = after.clients
               /\ running' = after.running
               /\ pending' = {} /\ kickTimers' = {} /\ orphans' = {}
               /\ chatHistory' = <<>> /\ appended' = <<>>
               /\ sent' = <<>>
               /\ UNCHANGED <<stateFile, written, now, adminEmail, nextItem>>
       ELSE Ignored
    /\ last' = [type |-> "malformed", conn |-> c, of |-> type]

\* Well-formed and malformed messages from both connections.
NextFaults ==
    \/ \E c \in Conn, type \in ThrowingTypes : Malformed(c, type)
    \/ QueueAdd(2, VideoFor(nextItem + 1), TRUE)
    \/ VideoEnded(2, TRUE)
    \/ \E c \in Conn : Len(appended) < MaxChats /\ Chat(c, ChatPayload(Len(appended) + 1))
    \/ Tick

SpecFaults == InitTwo /\ [][NextFaults]_vars

\* C12: a message whose handling throws leaves the process running, every
\* connection open, and the room state and the registry as they were.
C12_ThrowCaught ==
    [][ (last'.type = "malformed") =>
        /\ running'.kind # "exited"
        /\ sock' = sock
        /\ clients' = clients
        /\ serverState' = serverState ]_vars

\* ------------------------------------------------ failed authentications
\* Connections come and go and authenticate with a token Google rejects, with
\* Bob's token, or through auth-dev with either address; ADMIN_EMAIL is set
\* to the operator's address or not at all.
NextAuth ==
    \/ \E c \in Conn : Connect(c)
    \/ \E c \in Conn : Disconnect(c)
    \/ \E c \in Conn, tok \in {InvalidToken, Bob} : AuthGoogle(c, tok)
    \/ \E p \in pending : VerifyReject(p)
    \/ \E p \in pending : VerifySupersede(p)
    \/ GoogleInstallFinish
    \/ \E c \in Conn, email \in DevEmails : DevSupersede(c, email)
    \/ DevInstall
    \/ \E c \in Conn, email \in DevEmails : DevReject(c, email)

SpecAuth == Init /\ [][NextAuth]_vars

\* C13: an auth-google whose token fails verification, and an auth-dev whose
\* email is not the configured admin email (or with none configured), change
\* no record of the registry and close no socket; one error message goes to
\* the connection that sent it, nothing to any other.
C13_FailedAuthHarmless ==
    [][ ( \/ (last'.type = "auth-google-error" /\ last'.at = "verify")
          \/ (last'.type \in {"auth-dev-dedup", "auth-dev-error"}
                 /\ (adminEmail = "" \/ last'.email # adminEmail)) ) =>
        /\ clients' = clients
        /\ sock' = sock
        /\ running' = NoRun
        /\ \A i \in 1..Len(sent') : sent'[i].to = last'.conn
        /\ sock[last'.conn] = "open" =>
              (Len(sent') = 1 /\ sent'[1].msg.type = "error") ]_vars

C13_Witness ==
    /\ last.type = "auth-dev-error"
    /\ adminEmail = "ann@example.org"
    /\ last.email = "bob@example.org"
    /\ \E i \in 1..Len(clients) :
          clients[i].id # last.conn /\ clients[i].userId = hashGoogleId("ann@example.org")
    /\ Len(sent) = 1

\* C14: the disconnect of a registered connection removes its record, and the
\* user list and the 'left' notice it causes come after the removal: the list
\* has no entry of the leaver. In every step, a user list that is sent is the
\* list of the registry after the step, which holds no record of a closed
\* connection.
C14_LeaverRemovedFirst ==
    [][ /\ (last'.type = "disconnect" /\ HasClient(clients, last'.conn)) =>
            LET c == last'.conn
                rec == ClientOf(clients, c)
                lists == {i \in 1..Len(sent') : sent'[i].msg.type = "user-list"}
                lefts == {i \in 1..Len(sent') : sent'[i].msg.type = "chat"}
            IN /\ ~HasClient(clients', c)
               /\ (\E d \in Conn : sock'[d] = "open") => (lists # {} /\ lefts # {})
               /\ \A i \in lists : \A k \in 1..Len(sent'[i].msg.users) :
                      sent'[i].msg.users[k].id # rec.userId
               /\ \A i \in lists : \A j \in lefts : i < j
               /\ \A i \in 1..Len(sent') : sent'[i].to # c
        /\ \A i \in 1..Len(sent') :
              sent'[i].msg.type = "user-list" => sent'[i].msg = UserListOf(clients')
        /\ \A d \in Conn : sock'[d] = "closed" => ~HasClient(clients', d) ]_vars

C14_Witness ==
    /\ last.type = "disconnect"
    /\ ~HasClient(clients, last.conn)
    /\ Len(clients) >= 1
    /\ \E i \in 1..Len(sent) : sent[i].msg.type = "user-list" /\ Len(sent[i].msg.users) = Len(clients)
    /\ \E i \in 1..Len(sent) : sent[i].msg.type = "chat" /\ sent[i].msg.text[2] = "left"

\* ------------------------------------------------ order of processing
\* The guest sends auth-google and goes on sending chat messages; the admin
\* chats too.
NextOrder ==
    \/ AuthGoogle(2, Bob)
    \/ \E p \in pending : VerifySupersede(p)
    \/ GoogleInstallFinish
    \/ \E c \in Conn : Len(appended) < MaxChats /\ Chat(c, ChatPayload(Len(appended) + 1))
    \/ Tick

SpecOrder == InitTwo /\ [][NextOrder]_vars

\* C15: the messages of a connection are processed in arrival order: when a
\* chat message of a connection is handled, no auth-google message the same
\* connection sent before it is still unfinished.
C15_ArrivalOrder ==
    last.type = "chat" => \A p \in pending : p.conn # last.conn

\* ------------------------------------------------------- loading a video
\* Participants report ready, the queue fills and advances, the admin loads.
NextLoad ==
    \/ \E c \in Conn : Ready(c, TRUE)
    \/ QueueAdd(2, VideoFor(nextItem + 1), TRUE)
    \/ VideoEnded(2, TRUE)
    \/ \E ok \in WriteOutcomes : Load(1, "u1", ok)
    \/ Tick

SpecLoad == InitTwo /\ [][NextLoad]_vars

C17_SyncReplaces ==
    [][ (last'.type \in {"sync", "forceSync"}
            /\ (ClientOf(clients, last'.conn).isAdmin \/ serverState.areUserControlsAllowed)) =>
        LET m == last'.msg
            others == {d \in Conn \ {last'.conn} : sock[d] = "open"}
            raw == [type |-> last'.type, url |-> m.url, time |-> m.time, paused |-> m.paused]
        IN /\ serverState'.currentVideoState =
                 [url |-> IF m.url \in {Undefined, ""}
                          THEN serverState.currentVideoState.url ELSE m.url,
                  time |-> m.time, paused |-> m.paused, timestamp |-> now]
           /\ stateFile' = <<JsonStringify(serverState')>>
           /\ Len(sent') = Cardinality(others)
           /\ \A d \in others : \E i \in 1..Len(sent') : sent'[i] = [to |-> d, msg |-> raw]
           /\ \A i \in 1..Len(sent') : sent'[i].to # last'.conn ]_vars

C17_Witness ==
    /\ last.type = "forceSync"
    /\ ~ClientOf(clients, last.conn).isAdmin
    /\ serverState.areUserControlsAllowed
    /\ last.msg.url = Undefined
    /\ serverState.currentVideoState.url = "u2"
    /\ serverState.currentVideoState.timestamp = now /\ now > 0
    /\ Len(sent) >= 1

\* C18: an authorized timeUpdate sets time and paused to the reported values
\* and timestamp to now, and nothing else: the url, the queue,
\* currentQueueIndex, the flags, the registry and the chat history are as
\* before and nothing is sent.
C18_TimeUpdateFrame ==
    [][ (last'.type = "timeUpdate"
            /\ (ClientOf(clients, last'.conn).isAdmin \/ serverState.areUserControlsAllowed)) =>
        /\ serverState' =
              [serverState EXCEPT !.currentVideoState =
                  [url |-> serverState.currentVideoState.url, time |-> last'.msg.time,
                   paused |-> last'.msg.paused, timestamp |-> now]]
        /\ clients' = clients
        /\ chatHistory' = chatHistory
        /\ sent' = <<>> ]_vars

C18_Witness ==
    /\ last.type = "timeUpdate"
    /\ ~ClientOf(clients, last.conn).isAdmin
    /\ serverState.areUserControlsAllowed
    /\ serverState.currentVideoState.url = "u2"
    /\ serverState.currentVideoState.time = last.msg.time
    /\ serverState.currentVideoState.timestamp = now /\ now > 0
    /\ \E d \in Conn \ {last.conn} : sock[d] = "open"

\* -------------------------------------------------------- voice relay
\* The sender's frames are never dropped.
SilencedNever(cl, c) == FALSE

\* if (!sender || sender.isMuted) return;
Silenced(cl, c) == ~HasClient(cl, c) \/ ClientOf(cl, c).isMuted

\* socket.on("voice"): socket.broadcast.emit("voice", data)
Voice(c, data) ==
    /\ Idle
    /\ sock[c] = "open"
    /\ sent' = IF Silenced(clients, c) THEN <<>>
               ELSE EmitOthers(sock, c, [type |-> "voice", data |-> data])
    /\ last' = [type |-> "voice", conn |-> c, data |-> data]
    /\ UNCHANGED <<clients, sock, serverState, stateFile, written, chatHistory, appended,
                   now, adminEmail, pending, kickTimers, running, nextItem, orphans>>

\* Both participants talk while the admin mutes and unmutes; the guest
\* may leave.
NextVoice ==
    \/ \E c \in Conn, data \in {"pcm1", "pcm2"} : Voice(c, data)
    \/ \E t \in TargetIds : MuteUser(1, t)
    \/ Disconnect(2)
    \/ Tick

SpecVoice == InitGate /\ [][NextVoice]_vars

\* C19: a voice frame whose sender is muted (or has no record) is delivered to
\* nobody, and no voice frame is delivered to its sender; the mute flag that
\* counts is the one in the registry when the frame is processed.
C19_MutedSenderDropped ==
    [][ (last'.type = "voice") =>
        /\ (~HasClient(clients, last'.conn) \/ ClientOf(clients, last'.conn).isMuted)
               => sent' = <<>>
        /\ \A i \in 1..Len(sent') : sent'[i].to # last'.conn ]_vars

C19_Witness ==
    /\ last.type = "voice"
    /\ ClientOf(clients, last.conn).isMuted
    /\ sent = <<>>
    /\ \E d \in Conn \ {last.conn} : sock[d] = "open" /\ ~ClientOf(clients, d).isMuted

\* C20: a voice frame of an unmuted sender goes to every other open connection
\* whose participant is not muted and to no connection whose participant is
\* muted.
C20_MutedListenerSkipped ==
    [][ (last'.type = "voice" /\ HasClient(clients, last'.conn)
            /\ ~ClientOf(clients, last'.conn).isMuted) =>
        \A d \in Conn \ {last'.conn} :
            (sock[d] = "open" /\ HasClient(clients, d)) =>
                ( (\E i \in 1..Len(sent') : sent'[i].to = d /\ sent'[i].msg.type = "voice")
                  <=> ~ClientOf(clients, d).isMuted ) ]_vars

C22_PlayNextPrepends ==
    [][(last'.type = "queue-play-next" /\ AdminGate(Sender(last'.conn))) =>
          LET q == serverState.videoQueue
              cur == serverState.currentQueueIndex
              q2 == serverState'.videoQueue
              cur2 == serverState'.currentQueueIndex
          IN /\ Len(q2) = Len(q) + 1
             /\ Tail(q2) = q
             /\ \A i \in 1..Len(q) : q[i].id # q2[1].id
             /\ q2[1].addedBy = Sender(last'.conn).userId
             /\ cur2 = (IF cur >= 0 THEN cur + 1 ELSE -1)
             /\ cur >= 0 => q2[cur2 + 1] = q[cur + 1]
             /\ serverState'.currentVideoState = serverState.currentVideoState
             /\ serverState'.areUserControlsAllowed = serverState.areUserControlsAllowed
             /\ serverState'.isProxyEnabled = serverState.isProxyEnabled]_vars

\* An item was put in front of the item being played from the queue.
C22_Witness ==
    /\ last.type = "queue-play-next"
    /\ Len(serverState.videoQueue) >= 2
    /\ serverState.currentQueueIndex = 1
    /\ serverState.videoQueue[1].id = nextItem
    /\ serverState.currentVideoState.url = serverState.videoQueue[2].url

\* C23: a queue-remove of the admin with an id present in the queue deletes
\* exactly that item; currentQueueIndex decreases by one if the removed item
\* preceded the active item, becomes -1 if it was the active item and is
\* unchanged otherwise, so that an active item still present keeps being
\* designated; the playback state is unchanged.
C23_RemoveAdjusts ==
    [][(/\ last'.type = "queue-remove"
        /\ AdminGate(Sender(last'.conn))
        /\ FindIndex(serverState.videoQueue, last'.itemId) # -1) =>
          LET q == serverState.videoQueue
              cur == serverState.currentQueueIndex
              k == FindIndex(q, last'.itemId)
              q2 == serverState'.videoQueue
              cur2 == serverState'.currentQueueIndex
          IN /\ Len(q2) = Len(q) - 1
             /\ \A i \in 1..Len(q) : i < k + 1 => q2[i] = q[i]
             /\ \A i \in 1..Len(q) : i > k + 1 => q2[i - 1] = q[i]
             /\ \A i \in 1..Len(q2) : q2[i].id # last'.itemId
             /\ cur2 = (IF k < cur THEN cur - 1 ELSE IF k = cur THEN -1 ELSE cur)
             /\ (cur >= 0 /\ k # cur) => (cur2 >= 0 /\ q2[cur2 + 1] = q[cur + 1])
             /\ serverState'.currentVideoState = serverState.currentVideoState]_vars

\* The item before the active one was removed: the index went from 1 to 0.
C23_Witness ==
    /\ last.type = "queue-remove"
    /\ FindIndex(serverState.videoQueue, last.itemId) = -1
    /\ last.itemId \in 1..nextItem
    /\ last.index = 1
    /\ serverState.currentQueueIndex = 0
    /\ Len(serverState.videoQueue) >= 1
    /\ serverState.currentVideoState.url = serverState.videoQueue[1].url

\* C24: a queue-play-now{video} of the admin leaves the queue contents
\* unchanged, sets currentQueueIndex to -1 and the playback state to
\* {video.url, 0, not paused, now}, writes the state file and sends load{url}
\* to every connection, and nothing else.
C24_PlayNowBypasses ==
    [][(last'.type = "queue-play-now" /\ AdminGate(Sender(last'.conn))) =>
          /\ serverState'.videoQueue = serverState.videoQueue
          /\ serverState'.currentQueueIndex = -1
          /\ serverState'.currentVideoState = VideoState(last'.url, 0, FALSE, now)
          /\ last'.ok => stateFile' = <<JsonStringify(serverState')>>
          /\ \A c \in Conn : sock[c] = "open" =>
                Cardinality({i \in 1..Len(sent') : sent'[i].to = c}) = 1
          /\ \A i \in 1..Len(sent') :
                /\ sock[sent'[i].to] = "open"
                /\ sent'[i].msg = [type |-> "load", url |-> last'.url]]_vars

\* The admin played a video at once, past a queue of two items whose head has
\* another url; both connections were sent the load.
C24_Witness ==
    /\ last.type = "queue-play-now"
    /\ Len(serverState.videoQueue) >= 2
    /\ serverState.currentQueueIndex = -1
    /\ serverState.currentVideoState.url = last.url
    /\ serverState.currentVideoState.url # serverState.videoQueue[1].url
    /\ written.currentQueueIndex = -1
    /\ Len(sent) >= 2

\* C25: a video-ended processed while the queue holds exactly one item removes
\* it, sets currentQueueIndex to -1, leaves the playback state untouched and
\* sends no load; a video-ended processed while the queue is empty changes
\* nothing.
C25_LastItemEnded ==
    [][last'.type = "video-ended" =>
          /\ Len(serverState.videoQueue) = 1 =>
                /\ serverState'.videoQueue = <<>>
                /\ serverState'.currentQueueIndex = -1
                /\ serverState'.currentVideoState = serverState.currentVideoState
                /\ serverState'.areUserControlsAllowed = serverState.areUserControlsAllowed
                /\ serverState'.isProxyEnabled = serverState.isProxyEnabled
                /\ \A i \in 1..Len(sent') : sent'[i].msg.type # "load"
          /\ Len(serverState.videoQueue) = 0 =>
                /\ serverState' = serverState
                /\ stateFile' = stateFile
                /\ sent' = <<>>
                /\ clients' = clients
                /\ chatHistory' = chatHistory]_vars

\* The second of two queued videos ended: the queue is empty and the room
\* still shows that video, playing.
C25_Witness ==
    /\ last.type = "video-ended"
    /\ last.length = 1
    /\ last.index = 0
    /\ serverState.videoQueue = <<>>
    /\ serverState.currentQueueIndex = -1
    /\ serverState.currentVideoState.url = "u2"
    /\ ~serverState.currentVideoState.paused

\* The message types of the operations on the queue.
QueueOps ==
    {"queue-add", "queue-play-next", "queue-play-now", "queue-remove", "queue-reorder",
     "video-ended"}

\* C26: every operation that changes the queue or currentQueueIndex
\* (queue-add, queue-play-next, queue-play-now, queue-remove, queue-reorder,
\* video-ended) writes the state file and sends to every connection a
\* queue-state carrying the new queue and index.
C26_QueueChangeBroadcast ==
    [][(/\ last'.type \in QueueOps
        /\ \/ serverState'.videoQueue # serverState.videoQueue
           \/ serverState'.currentQueueIndex # serverState.currentQueueIndex) =>
          /\ last'.ok => stateFile' = <<JsonStringify(serverState')>>
          /\ \A c \in Conn : sock[c] = "open" =>
                \E i \in 1..Len(sent') :
                    sent'[i] = [to |-> c, msg |-> QueueStateMsg(serverState')]]_vars

\* C27: whenever a video-ended removes an item from the queue, the removed
\* item is the one currentQueueIndex designated immediately before the
\* message, so that an item that was never active is never removed.
C27_EndedRemovesActive ==
    [][(last'.type = "video-ended" /\ serverState'.videoQueue # serverState.videoQueue) =>
          LET q == serverState.videoQueue
              cur == serverState.currentQueueIndex
          IN /\ cur >= 0 /\ cur < Len(q)
             /\ \A i \in 1..Len(serverState'.videoQueue) :
                   serverState'.videoQueue[i].id # q[cur + 1].id]_vars

\* Auto-advance with an audience: every participant puts videos on the queue
\* and every participant's player reports the end of the video it shows.
NextEnded ==
    \/ \E c \in Conn : QueueAdd(c, VideoFor(nextItem + 1), TRUE)
    \/ \E c \in Conn : VideoEnded(c, TRUE)
    \/ Tick

SpecEnded == InitGate /\ [][NextEnded]_vars

\* C28: when two connected participants each send video-ended for the same
\* finished video (the two messages are processed one after the other at the
\* same instant, the first having removed the finished head), the second
\* message removes nothing and broadcasts no load: the queue advances by
\* exactly one item.
C28_EndedIdempotent ==
    [][(/\ last.type = "video-ended" /\ last.length >= 1
        /\ last'.type = "video-ended" /\ last'.conn # last.conn) =>
          /\ serverState'.videoQueue = serverState.videoQueue
          /\ \A i \in 1..Len(sent') : sent'[i].msg.type # "load"]_vars

\* C29: in every reachable state, currentQueueIndex >= 0 implies that the
\* playback url is the url of the queue item at currentQueueIndex; media that
\* is not sourced from the queue (after a load, a queue-play-now or a sync
\* carrying another url) goes with currentQueueIndex = -1.
C29_IndexDesignatesPlaying ==
    serverState.currentQueueIndex >= 0 =>
        /\ serverState.currentQueueIndex < Len(serverState.videoQueue)
        /\ serverState.videoQueue[serverState.currentQueueIndex + 1].url
              = serverState.currentVideoState.url

\* The queue manager together with the playback messages of the admin.
NextRoom ==
    \/ QueueAdd(2, VideoFor(nextItem + 1), TRUE)
    \/ QueuePlayNext(1, VideoFor(nextItem + 1), TRUE)
    \/ QueuePlayNow(1, VideoFor(nextItem + 1), TRUE)
    \/ \E id \in 1..nextItem : QueueRemove(1, id, TRUE)
    \/ \E i, j \in 0..(Len(serverState.videoQueue) - 1) : QueueReorder(1, i, j, TRUE)
    \/ VideoEnded(2, TRUE)
    \/ Load(1, "u1", TRUE)
    \/ Sync(1, "sync", [url |-> "u2", time |-> MaxTime, paused |-> FALSE], TRUE)

SpecRoom == InitTwo /\ [][NextRoom]_vars

\* C30: starting from the default state (empty queue, currentQueueIndex = -1),
\* after any sequence of queue-add, queue-play-next, queue-play-now,
\* queue-remove, queue-reorder, video-ended, load and sync messages,
\* -1 <= currentQueueIndex < length of the queue.
C30_IndexInRange ==
    /\ serverState.currentQueueIndex >= -1
    /\ serverState.currentQueueIndex < Len(serverState.videoQueue)

\* After an advance and an insertion in front of the active item the index is
\* at the last position of a queue of two, and the admin has loaded other media.
C30_Witness ==
    /\ last.type = "load"
    /\ Len(serverState.videoQueue) >= 2
    /\ serverState.currentQueueIndex = Len(serverState.videoQueue) - 1
    /\ serverState.currentVideoState.url = "u1"
    /\ serverState.videoQueue[serverState.currentQueueIndex + 1].url = "u2"

\* The lobby: participants come and go, the operator signs in through auth-dev,
\* loads a video, talks and kicks; a guest signs in with Google.  The timer a
\* kick-user sets fires after 100 ms if the socket is still open.
NextLobby ==
    \/ \E c \in Conn : Connect(c)
    \/ \E c \in Conn : Disconnect(c)
    \/ DevSupersede(1, "ann@example.org")
    \/ DevInstall
    \/ AuthGoogle(2, Bob)
    \/ \E p \in pending : VerifySupersede(p)
    \/ GoogleInstallFinish
    \/ Len(appended) < MaxChats /\ Chat(1, ChatPayload(Len(appended) + 1))
    \/ Load(1, "u1", TRUE)
    \/ \E t \in TargetIds : KickUser(1, t)
    \/ \E c \in Conn : KickFire(c)

\* A handler that has started runs to its end, and a scheduled timer callback
\* runs once no handler is running.
SpecLobby ==
    /\ InitRegistry /\ [][NextLobby]_vars
    /\ WF_vars(DevInstall) /\ WF_vars(GoogleInstallFinish)
    /\ \A c \in Conn : SF_vars(KickFire(c))

\* C31 as stated: the 'user left' notice produced when a registered connection
\* disconnects is appended to the chat history, and the login notice produced
\* on authentication is not.
C31_LeftNoticeStored ==
    [][/\ (last'.type \in {"disconnect", "kick-fire"} /\ HasClient(clients, last'.conn)) =>
             /\ Len(chatHistory') > 0
             /\ chatHistory'[Len(chatHistory')].isSystem
             /\ chatHistory'[Len(chatHistory')].text
                   = <<ClientOf(clients, last'.conn).nick, "left">>
       /\ last'.type \in {"auth-google-done", "auth-dev-done"} =>
             chatHistory' = chatHistory]_vars

\* C31 amended: neither notice is stored.  The 'user left' notice goes to every
\* connection open when the listener runs, the login notice to every open
\* connection but the one that authenticated, and both steps leave the chat
\* history as it was, so that a later joiner is sent neither.
C31_NoticesNotStored ==
    [][/\ (last'.type \in {"disconnect", "kick-fire"} /\ HasClient(clients, last'.conn)) =>
             /\ chatHistory' = chatHistory
             /\ \A c \in Conn : sock'[c] = "open" =>
                   \E i \in 1..Len(sent') :
                       sent'[i] = [to |-> c, msg |->
                                     LeftNotice(ClientOf(clients, last'.conn).nick)]
       /\ (last'.type \in {"auth-google-done", "auth-dev-done"}
           /\ HasClient(clients', last'.conn)) =>
             /\ chatHistory' = chatHistory
             /\ \A c \in Conn \ {last'.conn} : sock'[c] = "open" =>
                   \E i \in 1..Len(sent') :
                       /\ sent'[i].to = c
                       /\ sent'[i].msg.type = "chat"
                       /\ sent'[i].msg.text[1] = ClientOf(clients', last'.conn).nick
       /\ last'.type = "connect" =>
             \A i \in 1..Len(sent') :
                 sent'[i].msg.type = "chat-history" => sent'[i].msg.messages = chatHistory]_vars

\* The guest left a room whose history holds a chat entry; the operator was
\* sent the notice and the history still ends with the chat entry.
C31_Witness ==
    /\ last.type = "disconnect"
    /\ \E i \in 1..Len(sent) : sent[i].msg = LeftNotice("Bob")
    /\ Len(chatHistory) > 0
    /\ ~chatHistory[Len(chatHistory)].isSystem

\* C32: a toggle-user-controls{value} (resp. toggle-proxy{value}) of the admin
\* sets areUserControlsAllowed (resp. isProxyEnabled) to the value, writes the
\* state file, sends system-state with both current flags to every connection,
\* appends one system notice to the chat history as a chat entry is appended
\* (the oldest entry is evicted beyond 50) and sends it to every connection.
C32_ToggleAnnounced ==
    [][(/\ last'.type \in {"toggle-user-controls", "toggle-proxy"}
        /\ AdminGate(Sender(last'.conn))) =>
          LET n == Len(chatHistory')
              e == chatHistory'[n]
          IN /\ serverState'.areUserControlsAllowed =
                   (IF last'.type = "toggle-user-controls" THEN last'.value
                    ELSE serverState.areUserControlsAllowed)
             /\ serverState'.isProxyEnabled =
                   (IF last'.type = "toggle-proxy" THEN last'.value
                    ELSE serverState.isProxyEnabled)
             /\ serverState'.currentVideoState = serverState.currentVideoState
             /\ serverState'.videoQueue = serverState.videoQueue
             /\ last'.ok => stateFile' = <<JsonStringify(serverState')>>
             /\ n >= 1 /\ n <= MAX_HISTORY
             /\ e.isSystem /\ e.nick = "System" /\ e.timestamp = now
             /\ SubSeq(chatHistory', 1, n - 1) =
                   (IF Len(chatHistory) = MAX_HISTORY THEN Tail(chatHistory) ELSE chatHistory)
             /\ appended' = Append(appended, e)
             /\ \A c \in Conn : sock[c] = "open" =>
                   \E i, j \in 1..Len(sent') :
                       /\ i < j
                       /\ sent'[i] = [to |-> c, msg |->
                              [type |-> "system-state",
                               userControlsAllowed |-> serverState'.areUserControlsAllowed,
                               proxyEnabled |-> serverState'.isProxyEnabled]]
                       /\ sent'[j] = [to |-> c, msg |-> e]]_vars

\* The proxy was switched off with a full history: the notice took the last
\* of the 50 places and the oldest chat entry was evicted.
C32_Witness ==
    /\ last.type = "toggle-proxy"
    /\ ~serverState.isProxyEnabled
    /\ Len(appended) > MAX_HISTORY
    /\ Len(chatHistory) = MAX_HISTORY
    /\ chatHistory[MAX_HISTORY].isSystem
    /\ chatHistory[1] = appended[Len(appended) - MAX_HISTORY + 1]

\* C33: on connect a record is created with a temporary identifier of the
\* connection, the placeholder nick and isAdmin, isMuted, isReady false, and
\* the new connection alone is sent, in this order: welcome with the temporary
\* identifier, system-state, chat-history (only if the history is non-empty,
\* holding the whole history in order), forceSync (only if a url is loaded),
\* queue-state.
C33_ConnectGreeting ==
    [][last'.type = "connect" =>
          LET c == last'.conn
              rec == clients'[Len(clients')]
              url == serverState.currentVideoState.url
              expected ==
                  <<"welcome", "system-state">>
                  \o (IF Len(chatHistory) > 0 THEN <<"chat-history">> ELSE <<>>)
                  \o (IF url # "" /\ url # Undefined THEN <<"forceSync">> ELSE <<>>)
                  \o <<"queue-state">>
          IN /\ ~HasClient(clients, c)
             /\ Len(clients') = Len(clients) + 1
             /\ SubSeq(clients', 1, Len(clients)) = clients
             /\ rec.id = c /\ rec.userId = <<"temp", c>>
             /\ rec.nick = "Authenticating..."
             /\ ~rec.isAdmin /\ ~rec.isMuted /\ ~rec.isReady /\ ~rec.isAuthenticated
             /\ [i \in 1..Len(sent') |-> sent'[i].msg.type] = expected
             /\ \A i \in 1..Len(sent') : sent'[i].to = c
             /\ sent'[1].msg.userId = rec.userId
             /\ sent'[2].msg = [type |-> "system-state",
                                userControlsAllowed |-> serverState.areUserControlsAllowed,
                                proxyEnabled |-> serverState.isProxyEnabled]
             /\ Len(chatHistory) > 0 => sent'[3].msg.messages = chatHistory
             /\ \A i \in 1..Len(sent') :
                   sent'[i].msg.type = "forceSync" =>
                       /\ sent'[i].msg.url = url
                       /\ sent'[i].msg.paused = serverState.currentVideoState.paused
             /\ sent'[Len(sent')].msg =
                   [type |-> "queue-state", queue |-> serverState.videoQueue,
                    currentIndex |-> serverState.currentQueueIndex]]_vars

\* A participant joins a room with a loaded video and a history of two chat
\* entries: it is sent all five messages.
C33_Witness ==
    /\ last.type = "connect"
    /\ Len(sent) = 5
    /\ Len(chatHistory) >= 2
    /\ sent[3].msg.type = "chat-history"
    /\ sent[4].msg.type = "forceSync"
    /\ serverState.currentVideoState.url = "u1"
    /\ Len(clients) >= 2

\* C34: an admin's kick-user whose targetId matches a registered participant
\* sends kick to that connection alone and closes nothing in that step; the
\* target's record leaves the registry only in a later step that closes its
\* socket, until then its messages are handled as usual, and that step sends
\* the user-list of the remaining participants to every open socket; the
\* target is eventually removed; a kick-user matching nobody changes nothing
\* and sends nothing.
C34_KickThenClose ==
    /\ [][/\ (last'.type = "kick-user" /\ Sender(last'.conn).isAdmin) =>
                LET i == FirstUser(clients, last'.targetId, 1)
                IN /\ UNCHANGED <<clients, sock, serverState, stateFile, chatHistory>>
                   /\ IF i = 0
                      THEN sent' = <<>> /\ kickTimers' = kickTimers
                      ELSE sent' = <<[to |-> clients[i].id, msg |-> [type |-> "kick"]]>>
          /\ \A c \in kickTimers :
                /\ (HasClient(clients, c) /\ ~HasClient(clients', c)) =>
                      /\ sock[c] = "open" /\ sock'[c] = "closed"
                      /\ \A d \in Conn :
                            sock'[d] = "open" =>
                                \E k \in 1..Len(sent') :
                                    /\ sent'[k].to = d
                                    /\ sent'[k].msg = UserListOf(clients')
                /\ (last'.type = "chat" /\ last'.conn = c) =>
                      /\ Len(chatHistory') > 0
                      /\ chatHistory'[Len(chatHistory')].nick = Sender(c).nick
                      /\ ~chatHistory'[Len(chatHistory')].isSystem
         ]_vars
    /\ \A c \in Conn :
          (last.type = "kick-user" /\ sent = <<[to |-> c, msg |-> [type |-> "kick"]]>>)
              ~> ~HasClient(clients, c)

\* The delayed close of a kicked guest has fired: its record is gone and the
\* admin, still connected, was sent the user-list without it.
C34_Witness ==
    /\ last.type = "kick-fire"
    /\ sock[last.conn] = "closed"
    /\ ~HasClient(clients, last.conn)
    /\ Len(clients) = 1 /\ clients[1].isAdmin
    /\ Len(sent) >= 1
    /\ sent[1] = [to |-> clients[1].id, msg |-> UserListOf(clients)]

\* The queue handlers of an admin with item ids that are and are not in the
\* queue and indices inside and outside it, some writes of the state file
\* failing.
SpecStray ==
    /\ InitTwo
    /\ [][\/ \E ok \in WriteOutcomes : QueueAdd(2, VideoFor(nextItem + 1), ok)
          \/ VideoEnded(2, TRUE)
          \/ \E id \in 0..(nextItem + 1) : QueueRemove(1, id, TRUE)
          \/ \E i, j \in -1..Len(serverState.videoQueue) : QueueReorder(1, i, j, TRUE)
         ]_vars

\* C35: a queue-remove whose itemId matches no queue item and a queue-reorder
\* whose fromIndex or toIndex is outside [0, queue length) leave the queue,
\* currentQueueIndex and the playback state unchanged, do not write the state
\* file and send no message.
C35_StrayQueueRequest ==
    [][LET q == serverState.videoQueue
           stray ==
               \/ /\ last'.type = "queue-remove"
                  /\ \A k \in 1..Len(q) : q[k].id # last'.itemId
               \/ /\ last'.type = "queue-reorder"
                  /\ \/ last'.fromIndex < 0 \/ last'.fromIndex >= Len(q)
                     \/ last'.toIndex < 0 \/ last'.toIndex >= Len(q)
       IN stray => /\ serverState' = serverState
                   /\ stateFile' = stateFile
                   /\ written' = written
                   /\ sent' = <<>>]_vars

\* A queue-remove for an id that is not in the non-empty queue, while an item
\* is active and the state file is older than the state, was dropped.
C35_Witness ==
    /\ last.type = "queue-remove"
    /\ Len(serverState.videoQueue) >= 1
    /\ \A k \in 1..Len(serverState.videoQueue) :
          serverState.videoQueue[k].id # last.itemId
    /\ serverState.currentQueueIndex >= 0
    /\ serverState.currentVideoState.url # ""
    /\ written # serverState
    /\ sent = <<>>

\* C36: a participant's isAdmin is false at connect, is set exactly by the
\* completion, on that connection, of an auth-google or auth-dev whose email
\* equals the configured admin email, and is never cleared afterwards, not
\* even by a later authentication of the connection as somebody else; with no
\* admin email configured no participant is admin.
C36_AdminFlag ==
    [][/\ \A c \in Conn :
             LET granted == /\ last'.type \in {"auth-google-done", "auth-dev-done"}
                            /\ last'.conn = c
                            /\ adminEmail # ""
                            /\ last'.email = adminEmail
             IN /\ (HasClient(clients', c) /\ ~HasClient(clients, c)) =>
                       /\ last'.type = "connect"
                       /\ ~ClientOf(clients', c).isAdmin
                /\ (HasClient(clients', c) /\ HasClient(clients, c)) =>
                       ClientOf(clients', c).isAdmin
                           = (ClientOf(clients, c).isAdmin \/ granted)
       /\ adminEmail = "" => \A i \in 1..Len(clients') : ~clients'[i].isAdmin
      ]_vars

\* A connection that was made admin has since completed an auth-google as
\* Bob, whose email is not the admin email: it carries Bob's identity and is
\* still admin.
C36_Witness ==
    /\ last.type = "auth-google-done"
    /\ last.email = "bob@example.org"
    /\ adminEmail = "ann@example.org"
    /\ HasClient(clients, last.conn)
    /\ ClientOf(clients, last.conn).nick = "Bob"
    /\ ClientOf(clients, last.conn).isAdmin

\* C37: a session is terminated as superseded only by an auth-google of a
\* connection that is itself registered at that moment, and when an
\* auth-google that superseded a session completes, exactly one registered
\* connection holds the identity; a connection that disconnected while its
\* token was being verified never has a live session disconnected.
C37_SupersederRegistered ==
    [][/\ (last'.type = "auth-google-dedup" /\ running'.replaced # 0) =>
              HasClient(clients, last'.conn)
       /\ (last'.type = "auth-google-done" /\ last'.replaced # 0) =>
              Cardinality({i \in 1..Len(clients') :
                              clients'[i].userId = hashGoogleId(running.acct.sub)}) = 1
      ]_vars

\* C38: whenever 'Authentication failed' is sent to a connection in response
\* to an auth-google, the attempt has changed nothing in the registry: no
\* session was superseded by it and the connection's identifier, nick and
\* isAuthenticated flag are those it had before the attempt, also when the
\* failure arises while the profile image is cached.
C38_FailureChangesNothing ==
    [][/\ (last'.type = "auth-google-error" /\ last'.at = "verify") =>
              UNCHANGED <<clients, sock>>
       /\ (/\ last'.type = "auth-google-error"
           /\ last'.at = "cache"
           /\ HasClient(clients', last'.conn)
           /\ \A p \in pending' : p.conn # last'.conn) =>
              LET rec == ClientOf(clients', last'.conn)
              IN /\ last'.replaced = 0
                 /\ rec.userId = last'.was.userId
                 /\ rec.nick = last'.was.nick
                 /\ rec.isAuthenticated = last'.was.isAuthenticated
      ]_vars

\* C39: when an admin's queue-play-next was handled while a queue item was
\* active (currentQueueIndex >= 0), the next video-ended makes the inserted
\* item the playing one: the playback url becomes the inserted item's url, the
\* inserted item stays in the queue and the item that just finished is the
\* one removed.
C39_PlayNextIsNext ==
    [][(/\ last.type = "queue-play-next"
        /\ serverState.currentQueueIndex >= 1
        /\ last'.type = "video-ended") =>
           LET q == serverState.videoQueue
               inserted == q[1]
               finished == q[serverState.currentQueueIndex + 1]
               q2 == serverState'.videoQueue
           IN /\ serverState'.currentVideoState.url = inserted.url
              /\ \E k \in 1..Len(q2) : q2[k].id = inserted.id
              /\ \A k \in 1..Len(q2) : q2[k].id # finished.id
      ]_vars

\* C40: once the handling of an event that changed the registry (connect,
\* authentication, supersede, disconnect, mute-user, ready, load) has
\* completed, a user-list equal to the registry has been sent to every
\* registered connection.
C40_RosterConsistent ==
    [][(clients' # clients /\ running' = NoRun) =>
           \A i \in 1..Len(clients') :
               \E k \in 1..Len(sent') :
                   /\ sent'[k].to = clients'[i].id
                   /\ sent'[k].msg = UserListOf(clients')
      ]_vars

====
